---- MODULE Spec2Model ----
(***************************************************************************)
(* Token and session lifecycle of the authentication backend: the store    *)
(* (users, user_sessions, refresh_tokens, user_permissions), the request   *)
(* handlers that read and write it (each await on the store is one step,   *)
(* so requests interleave between their commits), the token codec and the  *)
(* access guards.                                                          *)
(***************************************************************************)
EXTENDS Integers, FiniteSets, Sequences, TLC

\* ---------------------------------------------------------------- bounds
MaxSessions == 2
MaxTokens == 3
MaxTicks == 1
NumProcs == 2
MaxUsers == 3

\* Request slots: requests in different slots interleave between their awaits.
Procs == 1..NumProcs

\* ------------------------------------------------------ program constants
ACCESS_TOKEN_TTL == 1200
REFRESH_TOKEN_TTL == 1
EMAIL_CONFIRMATION_TTL == 1
REMEMBER_ME_REFRESH_TOKEN_TTL == 14
SecondsPerDay == 86400

timedelta_days(days) == days * SecondsPerDay

\* The clock advances by a default refresh-token lifetime or by a remember-me
\* lifetime at a time.
ClockSteps == {timedelta_days(REFRESH_TOKEN_TTL), timedelta_days(REMEMBER_ME_REFRESH_TOKEN_TTL)}

\* ------------------------------------------------------------ value space
None == "None"

SecretKey == "secret_key"
ForgedKey == "forged_key"

Emails == {"a@example.com", "b@example.com"}
UnknownEmail == "nobody@example.com"
Passwords == {"Qwerty!234", "Asdfgh!567"}

\* str(n) and int(s) on the small integers the model uses
Digits == <<"0", "1", "2", "3", "4", "5", "6", "7", "8", "9">>
str(n) == Digits[n + 1]
int(s) == CHOOSE n \in 0..9 : Digits[n + 1] = s

\* Session ids are uuid4 values, modelled as 1, 2, ...: str(uuid) and uuid.UUID(s)
UuidStrings == <<"uuid-1", "uuid-2", "uuid-3", "uuid-4", "uuid-5">>
uuid_str(u) == UuidStrings[u]
uuid_UUID(s) == CHOOSE u \in 1..Len(UuidStrings) : UuidStrings[u] = s

\* str.lower() on the resource-type names in use
lower(s) == IF s = "Product" THEN "product" ELSE s

\* Faulty variant of get_sha256hash: the digest of the empty string, whatever
\* the secret
get_sha256hash_of_nothing(secret) == <<"sha256", 0>>

\* hashlib.sha256(secret).hexdigest(): a one-way, collision-free digest
get_sha256hash(secret) == <<"sha256", secret>>

\* passlib CryptContext.hash / verify (the salt is part of the hash string)
hash_password(plain_password, salt) == <<"argon2", salt, plain_password>>
verify_password(plain_password, hashed_password) == hashed_password[3] = plain_password

\* get_iat_exp_timestamps(delta) at clock reading t
get_iat_exp_timestamps(t, delta) == [iat |-> t, exp |-> t + delta]

VARIABLES
    now,               \* datetime.now(UTC) as epoch seconds
    ticks,             \* how often the clock has advanced
    users,             \* table users: id -> row
    user_sessions,     \* table user_sessions: id (uuid) -> row
    refresh_tokens,    \* table refresh_tokens: set of rows
    user_permissions,  \* table user_permissions: set of rows
    pc,                \* per request slot: the await the handler is at
    loc,               \* per request slot: the handler's local variables
    responses,         \* token pairs handed to clients (200 bodies of login/refresh)
    http,              \* the last response recorded
    observed,          \* the operations whose responses are recorded in http
    resolver,          \* the last permission resolution: user, override rows as read, result,
                       \* and the role_permissions dictionary as the call left it
    returned           \* the last direct repository call: method, argument, what it returned

store == <<users, user_sessions, refresh_tokens, user_permissions>>
vars == <<now, ticks, users, user_sessions, refresh_tokens, user_permissions,
          pc, loc, responses, http, observed, resolver, returned>>

NoTokenPair ==
    [access_token |-> [token |-> [payload |-> None, key |-> None],
                       created_at |-> 0, expires_at |-> 0],
     refresh_token |-> [token |-> 0, expires_at |-> 0]]

NoLocals == [user_id |-> 0, user_role |-> "", session_id |-> 0,
             remember_me |-> FALSE, token |-> 0, token_pair |-> NoTokenPair,
             permissions |-> {},
             override |-> [permission_id |-> 0, granted |-> FALSE, granted_by |-> 0],
             user_permission |-> {},
             current_password |-> "", new_password |-> "", hashed_password |-> <<>>]

\* A response: the operation, the status code and the detail text (the parts
\* of an f-string are the elements of the sequence).
Response(op, status, detail) == [op |-> op, status |-> status, detail |-> detail]
NoResponse == Response("none", 0, <<>>)

\* No permission resolution has run yet
NoResolution == [user_id |-> 0, rows |-> <<>>, result |-> <<>>, role_permissions |-> <<>>]

\* ------------------------------------------------------------ exceptions
\* A call either returns a value or raises: Ok(v) / Raise(e).
Ok(v) == [exc |-> "", value |-> v]
Raise(e) == [exc |-> e, value |-> None]
RaiseWith(e, message) == [exc |-> e, value |-> message]

\* A dependency or wrapper either passes a value on or ends the request with
\* HTTPException(status_code, detail).
Pass(v) == [status |-> 200, detail |-> <<>>, value |-> v]
HTTPException(status_code, detail) ==
    [status |-> status_code, detail |-> detail, value |-> None]

\* No repository method has been called directly yet
NoReturn == [op |-> "none", arg |-> 0, value |-> FALSE]

\* ------------------------------------------------------------ token codec
TokenPayload(sub, sid, iat, exp, jti, role, purpose, fingerprint) ==
    [sub |-> sub, sid |-> sid, iat |-> iat, exp |-> exp, jti |-> jti,
     role |-> role, purpose |-> purpose, fingerprint |-> fingerprint]

\* jwt.encode: the claims signed under a key
_encode(payload) == [payload |-> payload, key |-> SecretKey]

\* jwt.decode at clock reading t: JWTError on a bad signature or on exp < t
_decode(token, t) ==
    IF token.key = SecretKey /\ ~(token.payload.exp < t)
    THEN Ok(token.payload)
    ELSE Raise("JWTError")

decode_token(token, t) ==
    LET d == _decode(token, t)
    IN  IF d.exc = "JWTError" THEN Raise("TokenVerificationError") ELSE d

create_email_confirmation_token(user_id, t) ==
    LET ts == get_iat_exp_timestamps(t, timedelta_days(EMAIL_CONFIRMATION_TTL))
    IN  _encode(TokenPayload(str(user_id), None, ts.iat, ts.exp, None, None,
                             "email_confirmation", None))

verify_email_confirmation_token(token, t) ==
    LET d == decode_token(token, t)
    IN  IF d.exc # "" THEN d
        ELSE IF d.value.purpose # "email_confirmation"
        THEN Raise("TokenVerificationError")
        ELSE Ok(int(d.value.sub))

\* Faulty variant of make_access_token_payload: sub carries the session's number
make_access_token_payload_swapped(user_id, user_role, session_id, jti, t) ==
    LET ts == get_iat_exp_timestamps(t, ACCESS_TOKEN_TTL)
    IN  TokenPayload(str(session_id), uuid_str(session_id), ts.iat, ts.exp, jti, user_role,
                     "access", None)

make_access_token_payload(user_id, user_role, session_id, jti, t) ==
    LET ts == get_iat_exp_timestamps(t, ACCESS_TOKEN_TTL)
    IN  TokenPayload(str(user_id), uuid_str(session_id), ts.iat, ts.exp, jti, user_role,
                     "access", None)

create_access_token(payload) ==
    [token |-> _encode(payload), created_at |-> payload.iat, expires_at |-> payload.exp]

\* Faulty variant of TokenManager.verify_access_token: the purpose is not read
verify_access_token_any_purpose(token, t) == decode_token(token, t)

verify_access_token(token, t) ==
    LET d == decode_token(token, t)
    IN  IF d.exc # "" THEN d
        ELSE IF d.value.purpose # "access"
        THEN Raise("TokenVerificationError")
        ELSE d

\* Faulty variant of TokenManager.create_refresh_token: without a token_ttl
\* the remember-me lifetime is taken
create_refresh_token_long(fresh, token_ttl, t) ==
    LET days == IF token_ttl # 0 THEN token_ttl ELSE REMEMBER_ME_REFRESH_TOKEN_TTL
        ts == get_iat_exp_timestamps(t, timedelta_days(days))
    IN  [token |-> fresh, expires_at |-> ts.exp]

\* secrets.token_urlsafe yields the fresh plaintext `fresh`; token_ttl = 0 is None
create_refresh_token(fresh, token_ttl, t) ==
    LET days == IF token_ttl # 0 THEN token_ttl ELSE REFRESH_TOKEN_TTL
        ts == get_iat_exp_timestamps(t, timedelta_days(days))
    IN  [token |-> fresh, expires_at |-> ts.exp]

get_token_pair(user_id, user_role, session_id, refresh_token_ttl, fresh, t) ==
    [access_token |-> create_access_token(
         make_access_token_payload(user_id, user_role, session_id, str(fresh), t)),
     refresh_token |-> create_refresh_token(fresh, refresh_token_ttl, t)]

\* ------------------------------------------------------------ repositories
\* Each returns the table after the statement (writes) or the rows selected.

\* UserRepository.get_by_email: the ids of the rows with that email
get_by_email(email) == {u \in DOMAIN users : users[u].email = email}

\* Faulty variant of UserSessionRepository.create: a new session of a user
\* reinstates that user's revoked sessions
UserSessionCreateReinstating(session_id, user_id, expires_at) ==
    [s \in DOMAIN user_sessions \cup {session_id} |->
        IF s = session_id
        THEN [user_id |-> user_id, is_revoked |-> FALSE, expires_at |-> expires_at]
        ELSE IF user_sessions[s].user_id = user_id
        THEN [user_sessions[s] EXCEPT !.is_revoked = FALSE]
        ELSE user_sessions[s]]

\* UserSessionRepository.create
UserSessionCreate(session_id, user_id, expires_at) ==
    [s \in DOMAIN user_sessions \cup {session_id} |->
        IF s = session_id
        THEN [user_id |-> user_id, is_revoked |-> FALSE, expires_at |-> expires_at]
        ELSE user_sessions[s]]

\* Faulty variant of UserSessionRepository.get_active: is_revoked is not read
get_active_unrevoked_or_not(session_id, t) ==
    {s \in DOMAIN user_sessions :
        s = session_id /\ user_sessions[s].expires_at > t}

\* UserSessionRepository.get_active: the ids selected at clock reading t
get_active(session_id, t) ==
    {s \in DOMAIN user_sessions :
        /\ s = session_id
        /\ user_sessions[s].is_revoked = FALSE
        /\ user_sessions[s].expires_at > t}

\* Faulty variant of UserSessionRepository.revoke: every session of the user
\* the session belongs to is revoked
UserSessionRevokeAllOfUser(session_id) ==
    [s \in DOMAIN user_sessions |->
        IF /\ session_id \in DOMAIN user_sessions
           /\ user_sessions[s].user_id = user_sessions[session_id].user_id
        THEN [user_sessions[s] EXCEPT !.is_revoked = TRUE]
        ELSE user_sessions[s]]

\* Faulty variant of UserSessionRepository.revoke: is_revoked is flipped
UserSessionRevokeToggling(session_id) ==
    [s \in DOMAIN user_sessions |->
        IF s = session_id
        THEN [user_sessions[s] EXCEPT !.is_revoked = ~user_sessions[s].is_revoked]
        ELSE user_sessions[s]]

\* UserSessionRepository.revoke: result.rowcount, the rows the WHERE clause matches
UserSessionRevokeRowcount(session_id) ==
    Cardinality({s \in DOMAIN user_sessions : s = session_id})

\* UserSessionRepository.revoke: UPDATE ... WHERE id = session_id
UserSessionRevoke(session_id) ==
    [s \in DOMAIN user_sessions |->
        IF s = session_id
        THEN [user_sessions[s] EXCEPT !.is_revoked = TRUE]
        ELSE user_sessions[s]]

\* Faulty variant of RefreshTokenRepository.create: the rows the session
\* already has are revoked
RefreshTokenCreateRevokingSiblings(session_id, token_hash, expires_at) ==
    {IF r.session_id = session_id THEN [r EXCEPT !.is_revoked = TRUE] ELSE r :
        r \in refresh_tokens}
        \cup {[session_id |-> session_id, token_hash |-> token_hash,
                expires_at |-> expires_at, is_revoked |-> FALSE]}

\* RefreshTokenRepository.create
RefreshTokenCreate(session_id, token_hash, expires_at) ==
    refresh_tokens \cup {[session_id |-> session_id, token_hash |-> token_hash,
                          expires_at |-> expires_at, is_revoked |-> FALSE]}

\* Faulty variant of the gate: the session's is_revoked is not read
get_active_for_refresh_any_session(token_hash, t) ==
    {r \in refresh_tokens :
        /\ r.session_id \in DOMAIN user_sessions
        /\ r.token_hash = token_hash
        /\ r.is_revoked = FALSE
        /\ r.expires_at > t
        /\ user_sessions[r.session_id].expires_at > t}

\* Faulty variant of the gate: the session's expires_at is not read
get_active_for_refresh_any_session_age(token_hash, t) ==
    {r \in refresh_tokens :
        /\ r.session_id \in DOMAIN user_sessions
        /\ r.token_hash = token_hash
        /\ r.is_revoked = FALSE
        /\ r.expires_at > t
        /\ user_sessions[r.session_id].is_revoked = FALSE}

\* Faulty variant of the gate: the token's expires_at is not read
get_active_for_refresh_any_age(token_hash, t) ==
    {r \in refresh_tokens :
        /\ r.session_id \in DOMAIN user_sessions
        /\ r.token_hash = token_hash
        /\ r.is_revoked = FALSE
        /\ user_sessions[r.session_id].is_revoked = FALSE
        /\ user_sessions[r.session_id].expires_at > t}

\* RefreshTokenRepository.get_active_for_refresh: the rows of refresh_tokens
\* JOIN user_sessions that pass the WHERE clause at clock reading t
get_active_for_refresh(token_hash, t) ==
    {r \in refresh_tokens :
        /\ r.session_id \in DOMAIN user_sessions
        /\ r.token_hash = token_hash
        /\ r.is_revoked = FALSE
        /\ r.expires_at > t
        /\ user_sessions[r.session_id].is_revoked = FALSE
        /\ user_sessions[r.session_id].expires_at > t}

\* Faulty variant of RefreshTokenRepository.revoke: no row is updated
RefreshTokenRevokeNothing(token_hash, t) == refresh_tokens

\* Faulty variant of RefreshTokenRepository.revoke: expires_at is not compared
RefreshTokenRevokeAnyAge(token_hash, t) ==
    {IF r.token_hash = token_hash /\ r.is_revoked = FALSE
     THEN [r EXCEPT !.is_revoked = TRUE]
     ELSE r : r \in refresh_tokens}

\* RefreshTokenRepository.revoke: result.rowcount, the rows the WHERE clause matches
RefreshTokenRevokeRowcount(token_hash, t) ==
    Cardinality({r \in refresh_tokens :
        r.token_hash = token_hash /\ r.is_revoked = FALSE /\ r.expires_at > t})

\* RefreshTokenRepository.revoke at clock reading t
RefreshTokenRevoke(token_hash, t) ==
    {IF r.token_hash = token_hash /\ r.is_revoked = FALSE /\ r.expires_at > t
     THEN [r EXCEPT !.is_revoked = TRUE]
     ELSE r : r \in refresh_tokens}

\* UserRepository.get_by_id: the ids of the rows with that id
get_by_id(user_id) == {u \in DOMAIN users : u = user_id}

\* UserRepository.update_password: UPDATE users SET hashed_password WHERE id =
\* user_id, committed; the table after the statement
UserUpdatePassword(user_id, hashed_password) ==
    [u \in DOMAIN users |->
        IF u = user_id THEN [users[u] EXCEPT !.hashed_password = hashed_password]
        ELSE users[u]]

\* UserRepository.create: the table with the new row; is_active takes the
\* column default
UserCreate(user_id, email, hashed_password, role, t) ==
    [u \in DOMAIN users \cup {user_id} |->
        IF u = user_id
        THEN [email |-> email, role |-> role, is_active |-> FALSE,
              hashed_password |-> hashed_password, created_at |-> t]
        ELSE users[u]]

\* Faulty variant of UserRepository.mark_as_active: nothing is written
MarkAsActiveNothing(user_id) == users

\* UserRepository.mark_as_active, past its checks
MarkAsActive(user_id) == [users EXCEPT ![user_id].is_active = TRUE]

\* UserRepository.mark_as_inactive, past its checks
MarkAsInactive(user_id) == [users EXCEPT ![user_id].is_active = FALSE]

\* Faulty variant of UserRepository.mark_as_inactive: the role is not read
mark_as_inactive_any_role(user_id) ==
    IF get_by_id(user_id) = {}
    THEN Raise("UserNotFound")
    ELSE Ok(MarkAsInactive(user_id))

\* UserRepository.mark_as_inactive: the table after the commit, or the
\* exception raised
mark_as_inactive(user_id) ==
    IF get_by_id(user_id) = {}
    THEN Raise("UserNotFound")
    ELSE IF users[user_id].role = "admin"
    THEN Raise("AdminDeletion")
    ELSE Ok(MarkAsInactive(user_id))

\* ------------------------------------------------ roles and permissions
\* Tables resource_types, permissions and role_permissions as seeded; no
\* handler writes them.
resource_types == [id \in {1, 2} |-> IF id = 1 THEN "Product" ELSE "user"]

permissions ==
    [id \in {1, 2, 3, 4} |->
        CASE id = 1 -> [name |-> "product:read", resource_type_id |-> 1, action |-> "read"]
          [] id = 2 -> [name |-> "product:update", resource_type_id |-> 1, action |-> "update"]
          [] id = 3 -> [name |-> "user:update", resource_type_id |-> 2, action |-> "update"]
          [] id = 4 -> [name |-> "user:delete", resource_type_id |-> 2, action |-> "delete"]]

role_permissions ==
    {[role |-> "admin", permission_id |-> 1], [role |-> "admin", permission_id |-> 2],
     [role |-> "admin", permission_id |-> 3], [role |-> "admin", permission_id |-> 4],
     [role |-> "user", permission_id |-> 1]}

UnknownPermission == "order:read"

\* The rows of a result set in the order the store returns them: by id
RECURSIVE RowsById(_)
RowsById(ids) ==
    IF ids = {} THEN <<>>
    ELSE LET m == CHOOSE i \in ids : \A k \in ids : i <= k
         IN  <<m>> \o RowsById(ids \ {m})

\* dict key/value update
Put(dict, key, value) ==
    [k \in DOMAIN dict \cup {key} |-> IF k = key THEN value ELSE dict[k]]

Contains(list, x) == \E i \in 1..Len(list) : list[i] = x

\* list.remove(x): drops the first occurrence
Remove(list, x) ==
    LET i == CHOOSE i \in 1..Len(list) :
                 list[i] = x /\ \A k \in 1..(i - 1) : list[k] # x
    IN  SubSeq(list, 1, i - 1) \o SubSeq(list, i + 1, Len(list))

\* _permission_dict_from_result over rows <<resource_type, action>>
RECURSIVE _permission_dict_from_result(_)
_permission_dict_from_result(rows) ==
    IF rows = <<>> THEN <<>>
    ELSE LET before == _permission_dict_from_result(SubSeq(rows, 1, Len(rows) - 1))
             row == rows[Len(rows)]
             sofar == IF row[1] \in DOMAIN before THEN before[row[1]] ELSE <<>>
         IN  Put(before, row[1], Append(sofar, row[2]))

\* Faulty variant of _apply_user_permissions: a row with granted = false is
\* skipped
RECURSIVE _apply_user_permissions_grants_only(_, _)
_apply_user_permissions_grants_only(role_perms, user_rows) ==
    IF user_rows = <<>> THEN role_perms
    ELSE LET before == _apply_user_permissions_grants_only(
                           role_perms, SubSeq(user_rows, 1, Len(user_rows) - 1))
             row == user_rows[Len(user_rows)]
             final == IF row[1] \in DOMAIN before THEN before ELSE Put(before, row[1], <<>>)
         IN  IF row[3] /\ ~Contains(final[row[1]], row[2])
             THEN Put(final, row[1], Append(final[row[1]], row[2]))
             ELSE final

\* Faulty variant of _apply_user_permissions: a row with granted = false
\* empties the list of its resource type
RECURSIVE _apply_user_permissions_clearing(_, _)
_apply_user_permissions_clearing(role_perms, user_rows) ==
    IF user_rows = <<>> THEN role_perms
    ELSE LET before == _apply_user_permissions_clearing(
                           role_perms, SubSeq(user_rows, 1, Len(user_rows) - 1))
             row == user_rows[Len(user_rows)]
             final == IF row[1] \in DOMAIN before THEN before ELSE Put(before, row[1], <<>>)
         IN  IF row[3]
             THEN IF ~Contains(final[row[1]], row[2])
                  THEN Put(final, row[1], Append(final[row[1]], row[2]))
                  ELSE final
             ELSE Put(final, row[1], <<>>)

\* _apply_user_permissions over rows <<resource_type, action, granted>>
RECURSIVE _apply_user_permissions(_, _)
_apply_user_permissions(role_perms, user_rows) ==
    IF user_rows = <<>> THEN role_perms
    ELSE LET before == _apply_user_permissions(role_perms,
                                               SubSeq(user_rows, 1, Len(user_rows) - 1))
             row == user_rows[Len(user_rows)]
             final == IF row[1] \in DOMAIN before THEN before ELSE Put(before, row[1], <<>>)
         IN  IF row[3]
             THEN IF ~Contains(final[row[1]], row[2])
                  THEN Put(final, row[1], Append(final[row[1]], row[2]))
                  ELSE final
             ELSE IF Contains(final[row[1]], row[2])
                  THEN Put(final, row[1], Remove(final[row[1]], row[2]))
                  ELSE final

\* _apply_user_permissions, the objects it leaves behind: role_permissions.copy()
\* copies the dictionary and not its lists, so under a key of role_permissions
\* final_permissions holds the very list object of role_permissions, and
\* append/remove on it show in both; a list created for a new key belongs to
\* final_permissions alone
RECURSIVE _apply_user_permissions_objects(_, _)
_apply_user_permissions_objects(role_perms, user_rows) ==
    IF user_rows = <<>>
    THEN [role_permissions |-> role_perms, final_permissions |-> role_perms]
    ELSE LET before == _apply_user_permissions_objects(
                           role_perms, SubSeq(user_rows, 1, Len(user_rows) - 1))
             row == user_rows[Len(user_rows)]
             final == IF row[1] \in DOMAIN before.final_permissions
                      THEN before.final_permissions
                      ELSE Put(before.final_permissions, row[1], <<>>)
             list == IF row[3]
                     THEN IF ~Contains(final[row[1]], row[2])
                          THEN Append(final[row[1]], row[2])
                          ELSE final[row[1]]
                     ELSE IF Contains(final[row[1]], row[2])
                          THEN Remove(final[row[1]], row[2])
                          ELSE final[row[1]]
         IN  [role_permissions |->
                  IF row[1] \in DOMAIN role_perms
                  THEN Put(before.role_permissions, row[1], list)
                  ELSE before.role_permissions,
              final_permissions |-> Put(final, row[1], list)]

\* PermissionRepository.get_all_user_permissions, reading the override rows
\* of the user_permissions table `table`
get_all_user_permissions_of(table, user_id) ==
    LET role_ids == {id \in DOMAIN permissions :
                        /\ user_id \in DOMAIN users
                        /\ [role |-> users[user_id].role, permission_id |-> id]
                               \in role_permissions}
        role_rows == [i \in 1..Cardinality(role_ids) |->
                        LET perm == permissions[RowsById(role_ids)[i]]
                        IN  <<resource_types[perm.resource_type_id], perm.action>>]
        own == {r \in table : r.user_id = user_id}
        own_ids == {r.permission_id : r \in own}
        user_rows == [i \in 1..Cardinality(own_ids) |->
                        LET id == RowsById(own_ids)[i]
                            r == CHOOSE r \in own : r.permission_id = id
                        IN  <<resource_types[permissions[id].resource_type_id],
                              permissions[id].action, r.granted>>]
    IN  _apply_user_permissions(_permission_dict_from_result(role_rows), user_rows)

\* PermissionRepository.get_all_user_permissions
get_all_user_permissions(user_id) ==
    get_all_user_permissions_of(user_permissions, user_id)

\* role_perm_stmt of get_all_user_permissions: the rows <<resource_type, action>>
\* the role of user_id grants, as a permission dict
role_perm_result(user_id) ==
    LET role_ids == {id \in DOMAIN permissions :
                        /\ user_id \in DOMAIN users
                        /\ [role |-> users[user_id].role, permission_id |-> id]
                               \in role_permissions}
    IN  _permission_dict_from_result(
            [i \in 1..Cardinality(role_ids) |->
                LET perm == permissions[RowsById(role_ids)[i]]
                IN  <<resource_types[perm.resource_type_id], perm.action>>])

\* user_perm_stmt of get_all_user_permissions: the rows
\* <<resource_type, action, granted>> of user_id, in no order
user_permissions_result(user_id) ==
    {<<resource_types[permissions[r.permission_id].resource_type_id],
       permissions[r.permission_id].action, r.granted>> :
        r \in {q \in user_permissions : q.user_id = user_id}}

\* The orders in which a result set can be iterated
Orders(rows) ==
    {order \in [1..Cardinality(rows) -> rows] :
        \A i, j \in 1..Cardinality(rows) : order[i] = order[j] => i = j}

\* PermissionRepository.set_user_permission, past the permission lookup: the
\* row is looked up by permission_id alone
SetUserPermission(user_id, permission_id, granted, granted_by) ==
    LET found == {r \in user_permissions : r.permission_id = permission_id}
    IN  IF found # {}
        THEN LET user_permission ==
                     CHOOSE r \in found : \A q \in found : r.user_id <= q.user_id
             IN  (user_permissions \ {user_permission}) \cup
                     {[user_permission EXCEPT !.granted = granted,
                                              !.granted_by = granted_by]}
        ELSE user_permissions \cup
                 {[user_id |-> user_id, permission_id |-> permission_id,
                   granted |-> granted, granted_by |-> granted_by]}

\* The flush of a loaded UserPermissionEntity after granted and granted_by were
\* assigned: UPDATE ... WHERE (user_id, permission_id) = the loaded key, setting
\* the columns whose value differs from the loaded one
UserPermissionUpdate(loaded, granted, granted_by) ==
    {IF r.user_id = loaded.user_id /\ r.permission_id = loaded.permission_id
     THEN [r EXCEPT !.granted = IF granted # loaded.granted THEN granted ELSE r.granted,
                    !.granted_by = IF granted_by # loaded.granted_by
                                   THEN granted_by ELSE r.granted_by]
     ELSE r : r \in user_permissions}

\* Faulty variant of the INSERT into user_permissions: no primary key
UserPermissionInsertUnchecked(row) == Ok(user_permissions \cup {row})

\* INSERT into user_permissions: the primary key (user_id, permission_id)
\* refuses a second row for the pair
UserPermissionInsert(row) ==
    IF \E r \in user_permissions :
          r.user_id = row.user_id /\ r.permission_id = row.permission_id
    THEN Raise("IntegrityError")
    ELSE Ok(user_permissions \cup {row})

\* UserPermissions.from_dict: the Permission objects of a permission dict
from_dict(perm_dict) ==
    UNION {{[resource_type |-> lower(rt), action |-> perm_dict[rt][i]] :
              i \in 1..Len(perm_dict[rt])} : rt \in DOMAIN perm_dict}

\* Faulty variant of UserPermissions.has_permission: the action is not compared
has_permission_on_resource(perms, resource_type, action) ==
    \E permission \in perms : permission.resource_type = lower(resource_type)

\* UserPermissions.has_permission
has_permission(perms, resource_type, action) ==
    \E permission \in perms :
        permission.resource_type = lower(resource_type) /\ permission.action = action

\* ---------------------------------------------------------- access guard
\* get_user_session: the id of the active session, or 401
get_user_session(token, t) ==
    LET v == verify_access_token(token, t)
    IN  IF v.exc = "TokenVerificationError"
        THEN HTTPException(401, <<"Invalid authentication token or session expired.">>)
        ELSE IF get_active(uuid_UUID(v.value.sid), t) = {}
        THEN HTTPException(401, <<"Invalid authentication token or session expired.">>)
        ELSE Pass(uuid_UUID(v.value.sid))

\* Faulty variant of get_user_permissions: the permissions of the role, no
\* override row read
get_user_permissions_of_role(token, t) ==
    LET v == verify_access_token(token, t)
    IN  IF v.exc = "TokenVerificationError"
        THEN HTTPException(401, <<"Invalid authentication token.">>)
        ELSE Pass(from_dict(role_perm_result(int(v.value.sub))))

\* get_user_permissions: the caller's UserPermissions, or 401
get_user_permissions(token, t) ==
    LET v == verify_access_token(token, t)
    IN  IF v.exc = "TokenVerificationError"
        THEN HTTPException(401, <<"Invalid authentication token.">>)
        ELSE Pass(from_dict(get_all_user_permissions(int(v.value.sub))))

\* get_current_user: the caller's user id, or 401
get_current_user(token, t) ==
    LET v == verify_access_token(token, t)
    IN  IF v.exc = "TokenVerificationError"
        THEN HTTPException(401, <<"Invalid authentication token.">>)
        ELSE IF get_active(uuid_UUID(v.value.sid), t) = {}
        THEN HTTPException(401, <<"Invalid authentication token.">>)
        ELSE Pass(int(v.value.sub))

\* require_permission(resource_type, action): the wrapper's verdict on the
\* injected permissions: the handler runs, or 403
require_permission(resource_type, action, perms) ==
    IF has_permission(perms, resource_type, action)
    THEN Pass(None)
    ELSE HTTPException(403, <<"Access denied. Required: ", resource_type, ":", action,
                              " permission.">>)

\* The mock endpoints: name, and the arguments of their require_permission
Endpoints ==
    {[name |-> "get_products", resource_type |-> "product", action |-> "read"],
     [name |-> "update_product", resource_type |-> "product", action |-> "update"],
     [name |-> "get_orders", resource_type |-> "order", action |-> "read"]}

EndpointNames == {e.name : e \in Endpoints}

\* ------------------------------------------------------------------ Init
\* The store holds two registered users: an active admin, and a user of role
\* "user" who registered at time 0 and has not yet confirmed the email address.
InitialUsers ==
    [u \in {1, 2} |->
        IF u = 1
        THEN [email |-> "a@example.com", role |-> "admin", is_active |-> TRUE,
              hashed_password |-> hash_password("Qwerty!234", 1), created_at |-> 0]
        ELSE [email |-> "b@example.com", role |-> "user", is_active |-> FALSE,
              hashed_password |-> hash_password("Qwerty!234", 2), created_at |-> 0]]

InitStore ==
    /\ now = 0
    /\ ticks = 0
    /\ users = InitialUsers
    /\ user_sessions = <<>>
    /\ refresh_tokens = {}
    /\ user_permissions = {}
    /\ pc = [p \in Procs |-> "idle"]
    /\ loc = [p \in Procs |-> NoLocals]
    /\ responses = {}
    /\ http = NoResponse
    /\ resolver = NoResolution
    /\ returned = NoReturn

Init == InitStore /\ observed = {}

\* ---------------------------------------------------------------- clock
Tick(d) ==
    /\ ticks < MaxTicks
    /\ now' = now + d
    /\ ticks' = ticks + 1
    /\ UNCHANGED <<users, user_sessions, refresh_tokens, user_permissions,
                   pc, loc, responses, http, observed, resolver, returned>>

\* ------------------------------------------------------ request plumbing
\* Requests that have yet to insert a session / a refresh-token row.
SessionsToCome == Cardinality({p \in Procs : pc[p] = "login_create_session"})
TokensToCome ==
    Cardinality({p \in Procs :
        pc[p] \in {"login_create_session", "login_save_token", "refresh_save"}})
SessionRoom == Cardinality(DOMAIN user_sessions) + SessionsToCome < MaxSessions
TokenRoom == Cardinality(refresh_tokens) + TokensToCome < MaxTokens

\* uuid.uuid4() / secrets.token_urlsafe(): values never produced before
FreshSessionId == Cardinality(DOMAIN user_sessions) + 1
FreshToken == Cardinality(refresh_tokens) + 1

\* What clients can present: the plaintexts and access tokens they were
\* handed, a plaintext that was never issued (0), copies of access tokens signed
\* with another key, and the email-confirmation tokens sent at registration.
IssuedPlaintexts == {r.body.refresh_token.token : r \in responses}
PresentedPlaintexts == {0} \cup IssuedPlaintexts
IssuedAccessTokens == {r.body.access_token.token : r \in responses}
ForgedAccessTokens == {[tok EXCEPT !.key = ForgedKey] : tok \in IssuedAccessTokens}
EmailTokens == {create_email_confirmation_token(u, 0) : u \in DOMAIN InitialUsers}
PresentedBearerTokens == IssuedAccessTokens \cup ForgedAccessTokens \cup EmailTokens

\* The handler in slot p returns or raises: the response goes out
Finish(p, response) ==
    /\ pc' = [pc EXCEPT ![p] = "idle"]
    /\ loc' = [loc EXCEPT ![p] = NoLocals]
    /\ http' = IF response.op \in observed THEN response ELSE http
    /\ UNCHANGED <<observed, resolver, returned>>

\* The handler in slot p goes on to its next await
Goto(p, label, locals) ==
    /\ pc' = [pc EXCEPT ![p] = label]
    /\ loc' = [loc EXCEPT ![p] = locals]
    /\ UNCHANGED <<http, observed, resolver, returned>>

\* ----------------------------------------------------------------- login
\* Faulty variant of LoginUseCase._authenticate: a refused login locks the
\* next one out
_authenticate_locking(email, password) ==
    LET found == get_by_email(email)
    IN  IF http = Response("login", 401, <<"Invalid credentials.">>)
        THEN RaiseWith("AuthenticationError", "Too many attempts")
        ELSE IF found = {} THEN RaiseWith("AuthenticationError", "User not found")
        ELSE LET u == CHOOSE u \in found : TRUE
             IN  IF ~users[u].is_active
                 THEN RaiseWith("AuthenticationError", "User account is disabled")
                 ELSE IF ~verify_password(password, users[u].hashed_password)
                 THEN RaiseWith("AuthenticationError", "Invalid password")
                 ELSE Ok([id |-> u, role |-> users[u].role])

\* Faulty variant of LoginUseCase._authenticate: UserNotFound is not caught
_authenticate_leaking(email, password) ==
    LET found == get_by_email(email)
    IN  IF found = {} THEN RaiseWith("UserNotFound", "User not found")
        ELSE LET u == CHOOSE u \in found : TRUE
             IN  IF ~users[u].is_active
                 THEN RaiseWith("AuthenticationError", "User account is disabled")
                 ELSE IF ~verify_password(password, users[u].hashed_password)
                 THEN RaiseWith("AuthenticationError", "Invalid password")
                 ELSE Ok([id |-> u, role |-> users[u].role])

\* LoginUseCase._authenticate
_authenticate(email, password) ==
    LET found == get_by_email(email)
    IN  IF found = {} THEN RaiseWith("AuthenticationError", "User not found")
        ELSE LET u == CHOOSE u \in found : TRUE
             IN  IF ~users[u].is_active
                 THEN RaiseWith("AuthenticationError", "User account is disabled")
                 ELSE IF ~verify_password(password, users[u].hashed_password)
                 THEN RaiseWith("AuthenticationError", "Invalid password")
                 ELSE Ok([id |-> u, role |-> users[u].role])

\* Faulty variant of LoginUseCase._get_refresh_token_ttl: remember_me is not read
_get_refresh_token_ttl_default(remember_me) == REFRESH_TOKEN_TTL

\* LoginUseCase._get_refresh_token_ttl
_get_refresh_token_ttl(remember_me) ==
    IF remember_me THEN REMEMBER_ME_REFRESH_TOKEN_TTL ELSE REFRESH_TOKEN_TTL

\* POST /auth/login, first await: LoginUseCase._authenticate
LoginAuthenticate(p, email, password, remember_me) ==
    /\ pc[p] = "idle"
    /\ LET a == _authenticate(email, password)
       IN  IF a.exc = "AuthenticationError"
           THEN Finish(p, Response("login", 401, <<"Invalid credentials.">>))
           ELSE IF a.exc # ""
           THEN Finish(p, Response("login", 500, <<"Internal Server Error">>))
           ELSE /\ SessionRoom /\ TokenRoom
                /\ Goto(p, "login_create_session",
                        [NoLocals EXCEPT !.user_id = a.value.id,
                                         !.user_role = a.value.role,
                                         !.remember_me = remember_me])
    /\ UNCHANGED <<now, ticks, users, user_sessions, refresh_tokens,
                   user_permissions, responses>>

\* LoginUseCase._create_session: UserSessionRepository.create commits
LoginCreateSession(p) ==
    /\ pc[p] = "login_create_session"
    /\ LET ttl == _get_refresh_token_ttl(loc[p].remember_me)
           exp == get_iat_exp_timestamps(now, timedelta_days(ttl)).exp
       IN  /\ user_sessions' = UserSessionCreate(FreshSessionId, loc[p].user_id, exp)
           /\ Goto(p, "login_save_token", [loc[p] EXCEPT !.session_id = FreshSessionId])
    /\ UNCHANGED <<now, ticks, users, refresh_tokens, user_permissions, responses>>

\* get_token_pair, then LoginUseCase._save_refresh_token commits; 200
LoginSaveToken(p) ==
    /\ pc[p] = "login_save_token"
    /\ LET ttl == _get_refresh_token_ttl(loc[p].remember_me)
           token_pair == get_token_pair(loc[p].user_id, loc[p].user_role,
                                        loc[p].session_id, ttl, FreshToken, now)
       IN  /\ refresh_tokens' =
                 RefreshTokenCreate(loc[p].session_id,
                                    get_sha256hash(token_pair.refresh_token.token),
                                    token_pair.refresh_token.expires_at)
           /\ responses' = responses \cup
                 {[op |-> "login", presented |-> 0, body |-> token_pair]}
           /\ Finish(p, Response("login", 200, <<>>))
    /\ UNCHANGED <<now, ticks, users, user_sessions, user_permissions>>

\* --------------------------------------------------------------- refresh
\* Faulty variant of the gate step: a refused token is revoked on the way out
RefreshGateRevokingRefused(p, token) ==
    /\ pc[p] = "idle"
    /\ LET rows == get_active_for_refresh(get_sha256hash(token), now)
       IN  IF rows = {}
           THEN /\ refresh_tokens' =
                      {IF r.token_hash = get_sha256hash(token)
                       THEN [r EXCEPT !.is_revoked = TRUE] ELSE r : r \in refresh_tokens}
                /\ Finish(p, Response("refresh", 401,
                                      <<"Invalid or expired refresh token.">>))
           ELSE /\ TokenRoom
                /\ UNCHANGED refresh_tokens
                /\ LET refresh_token == CHOOSE r \in rows : TRUE
                       session == user_sessions[refresh_token.session_id]
                   IN  Goto(p, "refresh_save",
                            [NoLocals EXCEPT !.user_id = session.user_id,
                                             !.user_role = users[session.user_id].role,
                                             !.session_id = refresh_token.session_id,
                                             !.token = token])
    /\ UNCHANGED <<now, ticks, users, user_sessions, user_permissions, responses>>

\* POST /auth/refresh, first await: get_active_for_refresh (the gate)
RefreshGate(p, token) ==
    /\ pc[p] = "idle"
    /\ LET rows == get_active_for_refresh(get_sha256hash(token), now)
       IN  IF rows = {}
           THEN Finish(p, Response("refresh", 401, <<"Invalid or expired refresh token.">>))
           ELSE /\ TokenRoom
                /\ LET refresh_token == CHOOSE r \in rows : TRUE
                       session == user_sessions[refresh_token.session_id]
                   IN  Goto(p, "refresh_save",
                            [NoLocals EXCEPT !.user_id = session.user_id,
                                             !.user_role = users[session.user_id].role,
                                             !.session_id = refresh_token.session_id,
                                             !.token = token])
    /\ UNCHANGED <<now, ticks, users, user_sessions, refresh_tokens,
                   user_permissions, responses>>

\* get_token_pair, then RefreshUseCase._save_refresh_token commits
RefreshSave(p) ==
    /\ pc[p] = "refresh_save"
    /\ LET token_pair == get_token_pair(loc[p].user_id, loc[p].user_role,
                                        loc[p].session_id, 0, FreshToken, now)
       IN  /\ refresh_tokens' =
                 RefreshTokenCreate(loc[p].session_id,
                                    get_sha256hash(token_pair.refresh_token.token),
                                    token_pair.refresh_token.expires_at)
           /\ Goto(p, "refresh_revoke", [loc[p] EXCEPT !.token_pair = token_pair])
    /\ UNCHANGED <<now, ticks, users, user_sessions, user_permissions, responses>>

\* Faulty variant of the last step of RefreshUseCase.__call__: the refresh
\* also renews the session it belongs to
RefreshRevokeSliding(p) ==
    /\ pc[p] = "refresh_revoke"
    /\ refresh_tokens' = RefreshTokenRevoke(get_sha256hash(loc[p].token), now)
    /\ user_sessions' =
          [user_sessions EXCEPT ![loc[p].session_id].expires_at =
              loc[p].token_pair.refresh_token.expires_at]
    /\ responses' = responses \cup
          {[op |-> "refresh", presented |-> loc[p].token, body |-> loc[p].token_pair]}
    /\ Finish(p, Response("refresh", 200, <<>>))
    /\ UNCHANGED <<now, ticks, users, user_permissions>>

\* RefreshTokenRepository.revoke(token_hash) commits; 200 with the new pair
RefreshRevoke(p) ==
    /\ pc[p] = "refresh_revoke"
    /\ refresh_tokens' = RefreshTokenRevoke(get_sha256hash(loc[p].token), now)
    /\ responses' = responses \cup
          {[op |-> "refresh", presented |-> loc[p].token, body |-> loc[p].token_pair]}
    /\ Finish(p, Response("refresh", 200, <<>>))
    /\ UNCHANGED <<now, ticks, users, user_sessions, user_permissions>>

\* The store fails the revoke statement: the exception propagates (500) and
\* the row RefreshSave committed stays
RefreshRevokeFails(p) ==
    /\ pc[p] = "refresh_revoke"
    /\ Finish(p, Response("refresh", 500, <<"Internal Server Error">>))
    /\ UNCHANGED <<now, ticks, users, user_sessions, refresh_tokens,
                   user_permissions, responses>>

\* ---------------------------------------------------------------- logout
\* POST /auth/logout, first await: the dependency get_user_session
LogoutGuard(p, token) ==
    /\ pc[p] = "idle"
    /\ LET g == get_user_session(token, now)
       IN  IF g.status # 200
           THEN Finish(p, Response("logout", g.status, g.detail))
           ELSE Goto(p, "logout_revoke", [NoLocals EXCEPT !.session_id = g.value])
    /\ UNCHANGED <<now, ticks, users, user_sessions, refresh_tokens,
                   user_permissions, responses>>

\* LogoutUseCase.__call__: UserSessionRepository.revoke commits; 200
LogoutRevoke(p) ==
    /\ pc[p] = "logout_revoke"
    /\ user_sessions' = UserSessionRevoke(loc[p].session_id)
    /\ Finish(p, Response("logout", 200, <<"Successfully logged out.">>))
    /\ UNCHANGED <<now, ticks, users, refresh_tokens, user_permissions, responses>>

\* ------------------------------------------------------------- delete-me
\* DELETE /users/me, first await: the dependency get_user_session
DeleteMeGuard(p, token) ==
    /\ pc[p] = "idle"
    /\ LET g == get_user_session(token, now)
       IN  IF g.status # 200
           THEN Finish(p, Response("delete_me", g.status, g.detail))
           ELSE Goto(p, "delete_me_inactive",
                     [NoLocals EXCEPT !.session_id = g.value,
                                      !.user_id = user_sessions[g.value].user_id])
    /\ UNCHANGED <<now, ticks, users, user_sessions, refresh_tokens,
                   user_permissions, responses>>

\* Faulty variant of DeleteMeUseCase: the session is revoked before
\* mark_as_inactive is called
DeleteMeRevokingFirst(p) ==
    /\ pc[p] = "delete_me_inactive"
    /\ user_sessions' = UserSessionRevoke(loc[p].session_id)
    /\ IF users[loc[p].user_id].role = "admin"
       THEN /\ Finish(p, Response("delete_me", 409, <<"Cannot delete admin user">>))
            /\ UNCHANGED users
       ELSE /\ users' = MarkAsInactive(loc[p].user_id)
            /\ Goto(p, "delete_me_revoke", loc[p])
    /\ UNCHANGED <<now, ticks, refresh_tokens, user_permissions, responses>>

\* DeleteMeUseCase: UserRepository.mark_as_inactive; AdminDeletion is 409
DeleteMeMarkInactive(p) ==
    /\ pc[p] = "delete_me_inactive"
    /\ IF users[loc[p].user_id].role = "admin"
       THEN /\ Finish(p, Response("delete_me", 409, <<"Cannot delete admin user">>))
            /\ UNCHANGED users
       ELSE /\ users' = MarkAsInactive(loc[p].user_id)
            /\ Goto(p, "delete_me_revoke", loc[p])
    /\ UNCHANGED <<now, ticks, user_sessions, refresh_tokens, user_permissions,
                   responses>>

\* DeleteMeUseCase: UserSessionRepository.revoke commits; 204
DeleteMeRevoke(p) ==
    /\ pc[p] = "delete_me_revoke"
    /\ user_sessions' = UserSessionRevoke(loc[p].session_id)
    /\ Finish(p, Response("delete_me", 204, <<>>))
    /\ UNCHANGED <<now, ticks, users, refresh_tokens, user_permissions, responses>>

\* ------------------------------------------------------------ user-delete
\* DELETE /admin/user-delete/{user_id}, first await: the dependency
\* get_user_permissions
AdminDeleteGuard(p, token, user_id) ==
    /\ pc[p] = "idle"
    /\ LET perms == get_user_permissions(token, now)
       IN  IF perms.status # 200
           THEN Finish(p, Response("delete_user", perms.status, perms.detail))
           ELSE Goto(p, "delete_user",
                     [NoLocals EXCEPT !.user_id = user_id, !.permissions = perms.value])
    /\ UNCHANGED <<now, ticks, users, user_sessions, refresh_tokens,
                   user_permissions, responses>>

\* DeleteUserUseCase.__call__: has_permission("user", DELETE), then
\* UserRepository.mark_as_inactive; the route maps the exceptions
AdminDeleteUser(p) ==
    /\ pc[p] = "delete_user"
    /\ IF ~has_permission(loc[p].permissions, "user", "delete")
       THEN /\ Finish(p, Response("delete_user", 403,
                                  <<"Insufficient permissions to delete other users.">>))
            /\ UNCHANGED users
       ELSE LET m == mark_as_inactive(loc[p].user_id)
            IN  IF m.exc = "UserNotFound"
                THEN /\ Finish(p, Response("delete_user", 404, <<"User not found.">>))
                     /\ UNCHANGED users
                ELSE IF m.exc = "AdminDeletion"
                THEN /\ Finish(p, Response("delete_user", 409,
                                           <<"Cannot delete admin user.">>))
                     /\ UNCHANGED users
                ELSE /\ users' = m.value
                     /\ Finish(p, Response("delete_user", 200,
                                           <<"User deleted successfully.">>))
    /\ UNCHANGED <<now, ticks, user_sessions, refresh_tokens, user_permissions,
                   responses>>

\* --------------------------------------------------------------- register
\* Table user_roles as seeded, and a role name it does not hold
UserRoles == {"admin", "user"}
UnknownRole == "guest"
NewEmail == "c@example.com"

\* Users that can still register
UserRoom == Cardinality(DOMAIN users) < MaxUsers
FreshUserId == Cardinality(DOMAIN users) + 1

\* POST /users: RegisterUserUseCase (get_id_by_name, UserRepository.create
\* commits), then Notifier.send_email_confirmation; 201 with the token
Register(p, email, new_password, user_role) ==
    /\ pc[p] = "idle"
    /\ IF user_role \notin UserRoles
       THEN /\ Finish(p, Response("register", 400,
                                  <<"User role '", user_role, "' not found">>))
            /\ UNCHANGED users
       ELSE IF get_by_email(email) # {}
       THEN /\ Finish(p, Response("register", 409,
                                  <<"User with email '", email, "' already exists.">>))
            /\ UNCHANGED users
       ELSE /\ UserRoom
            /\ users' = UserCreate(FreshUserId, email,
                                   hash_password(new_password, FreshUserId), user_role, now)
            /\ Finish(p, Response("register", 201,
                                  <<"Registration successful. ",
                                    "Please check your email for verification. Token=",
                                    create_email_confirmation_token(FreshUserId, now)>>))
    /\ UNCHANGED <<now, ticks, user_sessions, refresh_tokens, user_permissions,
                   responses>>

\* The email-confirmation tokens registrations have sent
SentEmailTokens ==
    {create_email_confirmation_token(u, users[u].created_at) : u \in DOMAIN users}

\* --------------------------------------------------------- confirm-email
\* POST /users/confirm-email: ConfirmEmailUseCase
ConfirmEmail(p, token) ==
    /\ pc[p] = "idle"
    /\ LET v == verify_email_confirmation_token(token, now)
       IN  IF v.exc = "TokenVerificationError"
           THEN /\ Finish(p, Response("confirm_email", 400,
                                      <<"Invalid or expired verification token">>))
                /\ UNCHANGED users
           ELSE IF users[v.value].is_active
           THEN /\ Finish(p, Response("confirm_email", 409,
                                      <<"Email address already confirmed.">>))
                /\ UNCHANGED users
           ELSE /\ users' = MarkAsActive(v.value)
                /\ Finish(p, Response("confirm_email", 200,
                                      <<"Email address confirmed successfully.">>))
    /\ UNCHANGED <<now, ticks, user_sessions, refresh_tokens, user_permissions,
                   responses>>

\* -------------------------------------------------------- set-permission
\* PUT /admin/user-permissions/{user_id}: get_current_user, get_user_permissions,
\* require_permission("user", UPDATE), ManageUserPermissionsUseCase.set_user_permission
WriteUserPermissions(p, token, user_id, permission_name, granted) ==
    /\ pc[p] = "idle"
    /\ LET current_user == get_current_user(token, now)
           perms == get_user_permissions(token, now)
           named == {id \in DOMAIN permissions : permissions[id].name = permission_name}
       IN  IF current_user.status # 200
           THEN /\ Finish(p, Response("write_user_permissions", current_user.status,
                                      current_user.detail))
                /\ UNCHANGED user_permissions
           ELSE IF require_permission("user", "update", perms.value).status # 200
           THEN /\ Finish(p, Response("write_user_permissions", 403,
                                      require_permission("user", "update",
                                                         perms.value).detail))
                /\ UNCHANGED user_permissions
           ELSE IF get_by_id(user_id) = {}
           THEN /\ Finish(p, Response("write_user_permissions", 404,
                                      <<"User with id '", str(user_id), "' does not exist">>))
                /\ UNCHANGED user_permissions
           ELSE IF named = {}
           THEN /\ Finish(p, Response("write_user_permissions", 404,
                                      <<"Permission ", permission_name, " not found">>))
                /\ UNCHANGED user_permissions
           ELSE /\ user_permissions' =
                      SetUserPermission(user_id, CHOOSE id \in named : TRUE, granted,
                                        current_user.value)
                /\ Finish(p, Response("write_user_permissions", 200,
                                      <<"User permissions updated successfully">>))
    /\ UNCHANGED <<now, ticks, users, user_sessions, refresh_tokens, responses>>

\* ManageUserPermissionsUseCase.set_user_permission, its reads: _check_user_exists,
\* the permission by name, and the override row by permission_id (scalar()
\* takes the first row of a result that has no ORDER BY)
SetPermissionLookup(p, user_id, permission_name, granted, granted_by) ==
    /\ pc[p] = "idle"
    /\ LET named == {id \in DOMAIN permissions : permissions[id].name = permission_name}
       IN  IF get_by_id(user_id) = {}
           THEN Finish(p, Response("set_user_permission", 404,
                                   <<"User with id '", str(user_id), "' does not exist">>))
           ELSE IF named = {}
           THEN Finish(p, Response("set_user_permission", 404,
                                   <<"Permission ", permission_name, " not found">>))
           ELSE LET permission_id == CHOOSE id \in named : TRUE
                    found == {r \in user_permissions : r.permission_id = permission_id}
                IN  \E user_permission \in
                          IF found = {} THEN {{}} ELSE {{r} : r \in found} :
                        Goto(p, "set_permission_commit",
                             [NoLocals EXCEPT
                                 !.user_id = user_id,
                                 !.override = [permission_id |-> permission_id,
                                               granted |-> granted,
                                               granted_by |-> granted_by],
                                 !.user_permission = user_permission])
    /\ UNCHANGED <<now, ticks, users, user_sessions, refresh_tokens,
                   user_permissions, responses>>

\* PermissionRepository.set_user_permission, its write: the loaded row is
\* updated, or a row is inserted; commit
SetPermissionCommit(p) ==
    /\ pc[p] = "set_permission_commit"
    /\ IF loc[p].user_permission # {}
       THEN /\ user_permissions' =
                  UserPermissionUpdate(CHOOSE r \in loc[p].user_permission : TRUE,
                                       loc[p].override.granted,
                                       loc[p].override.granted_by)
            /\ Finish(p, Response("set_user_permission", 200,
                                  <<"User permissions updated successfully">>))
       ELSE LET inserted ==
                    UserPermissionInsert([user_id |-> loc[p].user_id,
                                          permission_id |-> loc[p].override.permission_id,
                                          granted |-> loc[p].override.granted,
                                          granted_by |-> loc[p].override.granted_by])
            IN  IF inserted.exc = "IntegrityError"
                THEN /\ Finish(p, Response("set_user_permission", 500,
                                           <<"Internal Server Error">>))
                     /\ UNCHANGED user_permissions
                ELSE /\ user_permissions' = inserted.value
                     /\ Finish(p, Response("set_user_permission", 200,
                                           <<"User permissions updated successfully">>))
    /\ UNCHANGED <<now, ticks, users, user_sessions, refresh_tokens, responses>>

\* The permissions an administrator names: one the role "user" grants, one it
\* does not, and one the permissions table does not hold
OverrideNames == {"product:read", "user:delete", UnknownPermission}

\* --------------------------------------------------------- mock endpoints
\* GET /mock-api/...: get_user_permissions, require_permission, the handler
MockRequest(p, endpoint, token) ==
    /\ pc[p] = "idle"
    /\ LET perms == get_user_permissions(token, now)
       IN  IF perms.status # 200
           THEN Finish(p, Response(endpoint.name, perms.status, perms.detail))
           ELSE LET w == require_permission(endpoint.resource_type, endpoint.action,
                                            perms.value)
                IN  IF w.status # 200
                    THEN Finish(p, Response(endpoint.name, w.status, w.detail))
                    ELSE Finish(p, Response(endpoint.name, 200, <<"handler">>))
    /\ UNCHANGED <<now, ticks, users, user_sessions, refresh_tokens,
                   user_permissions, responses>>

\* The override requests an administrator sends: the target user and the
\* permission names (one of them unknown to the permissions table)
WrittenUser == 2
WrittenOverrides ==
    {[permission_name |-> "product:read", granted |-> FALSE],
     [permission_name |-> "product:update", granted |-> TRUE],
     [permission_name |-> UnknownPermission, granted |-> TRUE]}

\* ------------------------------------------------------ permission query
\* PermissionRepository.get_all_user_permissions(user_id), the store returning
\* the override rows in the order `order`
GetAllUserPermissions(user_id, order) ==
    /\ resolver' = [user_id |-> user_id, rows |-> order,
                    result |-> _apply_user_permissions(role_perm_result(user_id), order),
                    role_permissions |->
                        _apply_user_permissions_objects(role_perm_result(user_id),
                                                        order).role_permissions]
    /\ UNCHANGED <<now, ticks, users, user_sessions, refresh_tokens, user_permissions,
                   pc, loc, responses, http, observed, returned>>

\* ------------------------------------------------------ repository calls
\* LogoutUseCase.__call__(session_id): UserSessionRepository.revoke commits and
\* returns rowcount > 0 (the use case drops the value)
SessionRevoke(session_id) ==
    /\ user_sessions' = UserSessionRevoke(session_id)
    /\ returned' = [op |-> "user_session.revoke", arg |-> session_id,
                    value |-> UserSessionRevokeRowcount(session_id) > 0]
    /\ UNCHANGED <<now, ticks, users, refresh_tokens, user_permissions,
                   pc, loc, responses, http, observed, resolver>>

\* RefreshTokenRepository.revoke(token_hash) for the hash of a plaintext:
\* commits and returns rowcount > 0
TokenRevoke(token) ==
    /\ refresh_tokens' = RefreshTokenRevoke(get_sha256hash(token), now)
    /\ returned' = [op |-> "refresh_token.revoke", arg |-> token,
                    value |-> RefreshTokenRevokeRowcount(get_sha256hash(token), now) > 0]
    /\ UNCHANGED <<now, ticks, users, user_sessions, user_permissions,
                   pc, loc, responses, http, observed, resolver>>

\* The session ids a caller can pass: those of the rows and one no row has
SessionIds == DOMAIN user_sessions \cup {FreshSessionId}

\* ------------------------------------------------------- change-password
\* The salts passlib can draw for a new hash; the rows of Init hold salts 1 and 2
NewSalts == {3, 4}

\* PUT /users/me/password, first await: the dependency get_current_user
ChangePasswordGuard(p, token, current_password, new_password) ==
    /\ pc[p] = "idle"
    /\ LET g == get_current_user(token, now)
       IN  IF g.status # 200
           THEN Finish(p, Response("change_password", g.status, g.detail))
           ELSE Goto(p, "change_password_verify",
                     [NoLocals EXCEPT !.user_id = g.value,
                                      !.current_password = current_password,
                                      !.new_password = new_password])
    /\ UNCHANGED <<now, ticks, users, user_sessions, refresh_tokens,
                   user_permissions, responses>>

\* Faulty variant of ChangePasswordUseCase._verify_current_password: the
\* current password is not compared with the stored hash
ChangePasswordVerifySkipped(p, salt) ==
    /\ pc[p] = "change_password_verify"
    /\ IF get_by_id(loc[p].user_id) = {}
       THEN Finish(p, Response("change_password", 500, <<"Internal Server Error">>))
       ELSE Goto(p, "change_password_update",
                 [loc[p] EXCEPT !.hashed_password = hash_password(loc[p].new_password, salt)])
    /\ UNCHANGED <<now, ticks, users, user_sessions, refresh_tokens,
                   user_permissions, responses>>

\* ChangePasswordUseCase._verify_current_password (UserRepository.get_by_id,
\* then verify_password), then hash_password(new_password); the route maps
\* AuthenticationError to 422
ChangePasswordVerify(p, salt) ==
    /\ pc[p] = "change_password_verify"
    /\ IF get_by_id(loc[p].user_id) = {}
       THEN Finish(p, Response("change_password", 500, <<"Internal Server Error">>))
       ELSE IF ~verify_password(loc[p].current_password,
                                users[loc[p].user_id].hashed_password)
       THEN Finish(p, Response("change_password", 422, <<"Current password is incorrect.">>))
       ELSE Goto(p, "change_password_update",
                 [loc[p] EXCEPT !.hashed_password = hash_password(loc[p].new_password, salt)])
    /\ UNCHANGED <<now, ticks, users, user_sessions, refresh_tokens,
                   user_permissions, responses>>

\* ChangePasswordUseCase.__call__, last await: UserRepository.update_password
\* commits; 204
ChangePasswordUpdate(p) ==
    /\ pc[p] = "change_password_update"
    /\ users' = UserUpdatePassword(loc[p].user_id, loc[p].hashed_password)
    /\ Finish(p, Response("change_password", 204, <<>>))
    /\ UNCHANGED <<now, ticks, user_sessions, refresh_tokens, user_permissions, responses>>

\* ------------------------------------------------- specifications
\* Concurrent requests: login, refresh and logout interleave step by step in
\* the request slots, and the clock advances between steps
Next ==
    \/ \E d \in ClockSteps : Tick(d)
    \/ \E p \in Procs, email \in Emails \cup {UnknownEmail}, password \in Passwords,
          remember_me \in BOOLEAN :
          LoginAuthenticate(p, email, password, remember_me)
    \/ \E p \in Procs : LoginCreateSession(p)
    \/ \E p \in Procs : LoginSaveToken(p)
    \/ \E p \in Procs, token \in PresentedPlaintexts : RefreshGate(p, token)
    \/ \E p \in Procs : RefreshSave(p)
    \/ \E p \in Procs : RefreshRevoke(p)
    \/ \E p \in Procs : RefreshRevokeFails(p)
    \/ \E p \in Procs, token \in PresentedBearerTokens : LogoutGuard(p, token)
    \/ \E p \in Procs : LogoutRevoke(p)

Spec == Init /\ [][Next]_vars

\* One request at a time, every operation that touches a session, a refresh
\* token, a user's activation or a permission override
NextSeq ==
    \/ \E d \in ClockSteps : Tick(d)
    \/ \E email \in Emails \cup {UnknownEmail}, password \in Passwords,
          remember_me \in BOOLEAN :
          LoginAuthenticate(1, email, password, remember_me)
    \/ LoginCreateSession(1)
    \/ LoginSaveToken(1)
    \/ \E token \in PresentedPlaintexts : RefreshGate(1, token)
    \/ RefreshSave(1)
    \/ RefreshRevoke(1)
    \/ RefreshRevokeFails(1)
    \/ \E token \in PresentedBearerTokens : LogoutGuard(1, token)
    \/ LogoutRevoke(1)
    \/ \E token \in PresentedBearerTokens : DeleteMeGuard(1, token)
    \/ DeleteMeMarkInactive(1)
    \/ DeleteMeRevoke(1)
    \/ \E token \in PresentedBearerTokens : ConfirmEmail(1, token)
    \/ \E token \in IssuedAccessTokens,
          o \in {w \in WrittenOverrides : w.permission_name # "product:update"} :
          WriteUserPermissions(1, token, WrittenUser, o.permission_name, o.granted)

SpecSeq == Init /\ [][NextSeq]_vars

\* The access guards under observation: the responses of logout and of the
\* permission-protected endpoints are recorded
InitGuard == InitStore /\ observed = {"logout"} \cup EndpointNames

NextGuard ==
    \/ \E d \in {ACCESS_TOKEN_TTL, timedelta_days(REFRESH_TOKEN_TTL)} : Tick(d)
    \/ \E email \in Emails : LoginAuthenticate(1, email, "Qwerty!234", FALSE)
    \/ LoginCreateSession(1)
    \/ LoginSaveToken(1)
    \/ \E token \in PresentedBearerTokens : LogoutGuard(1, token)
    \/ LogoutRevoke(1)
    \/ \E token \in EmailTokens : ConfirmEmail(1, token)
    \/ \E token \in IssuedAccessTokens, o \in WrittenOverrides :
          WriteUserPermissions(1, token, WrittenUser, o.permission_name, o.granted)
    \/ \E endpoint \in Endpoints, token \in PresentedBearerTokens :
          MockRequest(1, endpoint, token)

SpecGuard == InitGuard /\ [][NextGuard]_vars

\* Logins only: concurrent logins with every kind of credentials, email
\* confirmation and the clock; the responses of login are recorded
InitLogin == InitStore /\ observed = {"login"}

NextLogin ==
    \/ \E d \in ClockSteps : Tick(d)
    \/ \E p \in Procs, email \in Emails \cup {UnknownEmail}, password \in Passwords,
          remember_me \in BOOLEAN :
          LoginAuthenticate(p, email, password, remember_me)
    \/ \E p \in Procs : LoginCreateSession(p)
    \/ \E p \in Procs : LoginSaveToken(p)
    \/ \E p \in Procs, token \in EmailTokens : ConfirmEmail(p, token)

SpecLogin == InitLogin /\ [][NextLogin]_vars

\* The permission resolver alone, over every override table the endpoint
\* PUT /admin/user-permissions can leave behind: set_user_permission looks a row
\* up by permission_id alone, so a permission has at most one override row
OverrideTables ==
    {table \in SUBSET [user_id : DOMAIN InitialUsers, permission_id : DOMAIN permissions,
                       granted : BOOLEAN, granted_by : {1}] :
        \A r, q \in table : r.permission_id = q.permission_id => r = q}

InitPerms ==
    /\ now = 0
    /\ ticks = 0
    /\ users = InitialUsers
    /\ user_sessions = <<>>
    /\ refresh_tokens = {}
    /\ user_permissions \in OverrideTables
    /\ pc = [p \in Procs |-> "idle"]
    /\ loc = [p \in Procs |-> NoLocals]
    /\ responses = {}
    /\ http = NoResponse
    /\ resolver = NoResolution
    /\ returned = NoReturn
    /\ observed = {}

NextPerms ==
    \E user_id \in DOMAIN users :
        \E order \in Orders(user_permissions_result(user_id)) :
            GetAllUserPermissions(user_id, order)

SpecPerms == InitPerms /\ [][NextPerms]_vars

\* Deleting users: one request at a time, over every override table on the
\* permission user:delete; the responses of both delete endpoints are recorded
DeleteOverrideTables ==
    {table \in OverrideTables :
        \A r \in table : permissions[r.permission_id].name = "user:delete"}

\* The path parameter user_id: the two users and an id no user has
DeletedUsers == DOMAIN InitialUsers \cup {3}

InitDelete ==
    /\ now = 0
    /\ ticks = 0
    /\ users = InitialUsers
    /\ user_sessions = <<>>
    /\ refresh_tokens = {}
    /\ user_permissions \in DeleteOverrideTables
    /\ pc = [p \in Procs |-> "idle"]
    /\ loc = [p \in Procs |-> NoLocals]
    /\ responses = {}
    /\ http = NoResponse
    /\ resolver = NoResolution
    /\ returned = NoReturn
    /\ observed = {"delete_me", "delete_user"}

NextDelete ==
    \/ Tick(timedelta_days(REFRESH_TOKEN_TTL))
    \/ \E email \in Emails : LoginAuthenticate(1, email, "Qwerty!234", FALSE)
    \/ LoginCreateSession(1)
    \/ LoginSaveToken(1)
    \/ \E token \in EmailTokens : ConfirmEmail(1, token)
    \/ \E token \in PresentedBearerTokens, user_id \in DeletedUsers :
          AdminDeleteGuard(1, token, user_id)
    \/ AdminDeleteUser(1)
    \/ \E token \in PresentedBearerTokens : DeleteMeGuard(1, token)
    \/ DeleteMeMarkInactive(1)
    \/ DeleteMeRevoke(1)

SpecDelete == InitDelete /\ [][NextDelete]_vars

\* Registration and email confirmation: concurrent requests and the clock;
\* the responses of both endpoints are recorded
InitRegister == InitStore /\ observed = {"register", "confirm_email"}

NextRegister ==
    \/ \E d \in ClockSteps : Tick(d)
    \/ \E p \in Procs, email \in {"b@example.com", NewEmail}, new_password \in Passwords,
          user_role \in UserRoles \cup {UnknownRole} :
          Register(p, email, new_password, user_role)
    \/ \E p \in Procs, token \in SentEmailTokens : ConfirmEmail(p, token)

SpecRegister == InitRegister /\ [][NextRegister]_vars

\* The revoke methods of the two repositories called directly, on sessions and
\* tokens that logins and refreshes of one client created and the clock aged
InitRepo == InitStore /\ observed = {}

NextRepo ==
    \/ \E d \in ClockSteps : Tick(d)
    \/ \E remember_me \in BOOLEAN :
          LoginAuthenticate(1, "a@example.com", "Qwerty!234", remember_me)
    \/ LoginCreateSession(1)
    \/ LoginSaveToken(1)
    \/ \E token \in PresentedPlaintexts : RefreshGate(1, token)
    \/ RefreshSave(1)
    \/ RefreshRevoke(1)
    \/ \E session_id \in SessionIds : SessionRevoke(session_id)
    \/ \E token \in PresentedPlaintexts : TokenRevoke(token)

SpecRepo == InitRepo /\ [][NextRepo]_vars

\* Permission overrides: concurrent set_user_permission calls by the
\* administrator for every user; their outcomes are recorded
InitOverride == InitStore /\ observed = {"set_user_permission"}

NextOverride ==
    \/ \E p \in Procs, user_id \in DeletedUsers, permission_name \in OverrideNames,
          granted \in BOOLEAN :
          SetPermissionLookup(p, user_id, permission_name, granted, 1)
    \/ \E p \in Procs : SetPermissionCommit(p)

SpecOverride == InitOverride /\ [][NextOverride]_vars

\* Permission checks between override writes: logins issue access tokens, an
\* administrator writes overrides for either user through
\* PUT /admin/user-permissions/{user_id}, the mock endpoints are called with
\* every token issued so far, and the clock can pass the access-token lifetime
InitCheck == InitStore /\ observed = {"write_user_permissions"} \cup EndpointNames

NextCheck ==
    \/ Tick(ACCESS_TOKEN_TTL)
    \/ \E email \in Emails : LoginAuthenticate(1, email, "Qwerty!234", FALSE)
    \/ LoginCreateSession(1)
    \/ LoginSaveToken(1)
    \/ \E token \in EmailTokens : ConfirmEmail(1, token)
    \/ \E token \in IssuedAccessTokens, user_id \in DOMAIN InitialUsers,
          permission_name \in {o.permission_name : o \in WrittenOverrides},
          granted \in BOOLEAN :
          WriteUserPermissions(1, token, user_id, permission_name, granted)
    \/ \E endpoint \in Endpoints, token \in PresentedBearerTokens :
          MockRequest(1, endpoint, token)

SpecCheck == InitCheck /\ [][NextCheck]_vars

\* Refresh under observation: concurrent logins of the administrator and
\* refreshes with every plaintext issued and one never issued, logout and the
\* clock; the responses of refresh are recorded
InitRefresh == InitStore /\ observed = {"refresh"}

NextRefresh ==
    \/ \E d \in ClockSteps : Tick(d)
    \/ \E p \in Procs, remember_me \in BOOLEAN :
          LoginAuthenticate(p, "a@example.com", "Qwerty!234", remember_me)
    \/ \E p \in Procs : LoginCreateSession(p)
    \/ \E p \in Procs : LoginSaveToken(p)
    \/ \E p \in Procs, token \in PresentedPlaintexts : RefreshGate(p, token)
    \/ \E p \in Procs : RefreshSave(p)
    \/ \E p \in Procs : RefreshRevoke(p)
    \/ \E p \in Procs, token \in IssuedAccessTokens : LogoutGuard(p, token)
    \/ \E p \in Procs : LogoutRevoke(p)

SpecRefresh == InitRefresh /\ [][NextRefresh]_vars

\* Changing the password: the admin logs in with either password and presents
\* the access tokens to PUT /users/me/password with either password as the
\* current and as the new one; the responses of login and of the change are
\* recorded
InitPassword == InitStore /\ observed = {"login", "change_password"}

NextPassword ==
    \/ \E p \in Procs, password \in Passwords :
          LoginAuthenticate(p, "a@example.com", password, FALSE)
    \/ \E p \in Procs : LoginCreateSession(p)
    \/ \E p \in Procs : LoginSaveToken(p)
    \/ \E p \in Procs, token \in IssuedAccessTokens \cup ForgedAccessTokens,
          current_password \in Passwords, new_password \in Passwords :
          ChangePasswordGuard(p, token, current_password, new_password)
    \/ \E p \in Procs, salt \in NewSalts : ChangePasswordVerify(p, salt)
    \/ \E p \in Procs : ChangePasswordUpdate(p)

SpecPassword == InitPassword /\ [][NextPassword]_vars

\* ------------------------------------------------------------ properties
\* The refresh-token row that stores the digest of a plaintext
RowsOf(token) == {r \in refresh_tokens : r.token_hash = get_sha256hash(token)}

\* The plaintexts a refresh has consumed and answered with a new pair
Refreshed == {r.presented : r \in {x \in responses : x.op = "refresh"}}

\* C1: once a refresh presenting plaintext t has returned a pair, every refresh
\* that presents t afterwards is stopped at the gate (TokenNotFound; no new
\* token is minted for it), whatever other requests ran in between
C1_RefreshedTokenIsRejected ==
    [][\A p \in Procs : \A token \in Refreshed :
          RefreshGate(p, token) => pc'[p] = "idle" /\ refresh_tokens' = refresh_tokens]_vars

\* C1 happens: a plaintext has been refreshed and its row is revoked while the
\* session it belongs to is still active, so the row alone stops a replay
C1_Witness ==
    \E token \in Refreshed : \E r \in RowsOf(token) :
        /\ r.is_revoked
        /\ get_active(r.session_id, now) # {}
        /\ \E p \in Procs : pc[p] = "idle"

\* C2: of the refreshes that present one and the same plaintext, at most one
\* returns a pair
C2_OnePairPerPlaintext ==
    \A r1, r2 \in responses :
        (r1.op = "refresh" /\ r2.op = "refresh" /\ r1.presented = r2.presented)
            => r1 = r2

\* C3: once a session is revoked, every refresh that presents a token bound to
\* it is stopped at the gate (TokenNotFound), and the revocation itself leaves
\* every refresh-token row as it was
C3_RevokedSessionClosesGate ==
    [][/\ \A p \in Procs : \A token \in PresentedPlaintexts :
             (/\ RefreshGate(p, token)
              /\ \E r \in RowsOf(token) :
                    /\ r.session_id \in DOMAIN user_sessions
                    /\ user_sessions[r.session_id].is_revoked)
                => pc'[p] = "idle" /\ refresh_tokens' = refresh_tokens
       /\ \A p \in Procs : LogoutRevoke(p) => refresh_tokens' = refresh_tokens]_vars

\* C3 happens: a session is revoked while a token bound to it is neither
\* revoked nor expired, and the session has not expired either
C3_Witness ==
    \E r \in refresh_tokens :
        /\ user_sessions[r.session_id].is_revoked
        /\ user_sessions[r.session_id].expires_at > now
        /\ ~r.is_revoked
        /\ r.expires_at > now
        /\ \E p \in Procs : pc[p] = "idle"

\* The five conditions of the gate, for the plaintext presented
TokenRowExists(token) == RowsOf(token) # {}
TokenNotRevoked(token) == \A r \in RowsOf(token) : ~r.is_revoked
TokenNotExpired(token) == \A r \in RowsOf(token) : r.expires_at > now
SessionNotRevoked(token) ==
    \A r \in RowsOf(token) : ~user_sessions[r.session_id].is_revoked
SessionNotExpired(token) ==
    \A r \in RowsOf(token) : user_sessions[r.session_id].expires_at > now

\* C4: get_active_for_refresh returns a token exactly when the row exists, is
\* not revoked, has expires_at > now, and its session is not revoked and has
\* expires_at > now; the token it returns is the row of the digest presented
C4_GateIsConjunctive ==
    \A token \in PresentedPlaintexts :
        LET got == get_active_for_refresh(get_sha256hash(token), now)
        IN  /\ got # {} <=> /\ TokenRowExists(token)
                            /\ TokenNotRevoked(token)
                            /\ TokenNotExpired(token)
                            /\ SessionNotRevoked(token)
                            /\ SessionNotExpired(token)
            /\ got \subseteq RowsOf(token)
            /\ Cardinality(got) <= 1

\* C4 happens: one token passes the gate while another fails it on one
\* condition alone, the expiry of its session
C4_Witness ==
    /\ \E token \in IssuedPlaintexts :
          get_active_for_refresh(get_sha256hash(token), now) # {}
    /\ \E token \in IssuedPlaintexts :
          /\ TokenNotRevoked(token) /\ TokenNotExpired(token)
          /\ SessionNotRevoked(token) /\ ~SessionNotExpired(token)

\* C5: rotation is atomic: in no state of the store is the token a refresh has
\* minted present while the token it consumes is still not revoked
C5_RotationIsAtomic ==
    \A p \in Procs :
        (/\ pc[p] = "refresh_revoke"
         /\ RowsOf(loc[p].token_pair.refresh_token.token) # {})
            => \A r \in RowsOf(loc[p].token) : r.is_revoked

\* C6: a session has at most one refresh token that is neither revoked nor
\* expired
C6_OneActiveTokenPerSession ==
    \A s \in DOMAIN user_sessions :
        Cardinality({r \in refresh_tokens :
                        r.session_id = s /\ ~r.is_revoked /\ r.expires_at > now}) <= 1

\* An access token verifies: signed with the server's key, not expired, and of
\* purpose "access"
Verifies(token) ==
    /\ token.key = SecretKey
    /\ token.payload.exp >= now
    /\ token.payload.purpose = "access"

\* The session an access token names in sid, and whether it is active
SessionOf(token) == uuid_UUID(token.payload.sid)
SessionLive(token) ==
    /\ SessionOf(token) \in DOMAIN user_sessions
    /\ ~user_sessions[SessionOf(token)].is_revoked
    /\ user_sessions[SessionOf(token)].expires_at > now

\* C7: get_user_session lets a bearer token through, with the session of its
\* sid, exactly when the token verifies and that session is neither revoked nor
\* expired; in every other case the request ends in 401 with one and the same
\* detail
C7_SessionGuardIsConjunctive ==
    [][(pc' # pc \/ http' # http) =>
       \A p \in Procs : \A token \in PresentedBearerTokens :
          LogoutGuard(p, token) =>
              IF Verifies(token) /\ SessionLive(token)
              THEN pc'[p] = "logout_revoke" /\ loc'[p].session_id = SessionOf(token)
              ELSE /\ pc'[p] = "idle"
                   /\ http' = Response("logout", 401,
                                <<"Invalid authentication token or session expired.">>)]_vars

\* C7 happens: a logout was answered 401 while an issued token still verifies
\* and only its session, revoked, stands in the way
C7_Witness ==
    /\ http = Response("logout", 401,
                       <<"Invalid authentication token or session expired.">>)
    /\ \E token \in IssuedAccessTokens :
          /\ Verifies(token)
          /\ user_sessions[SessionOf(token)].is_revoked
          /\ user_sessions[SessionOf(token)].expires_at > now

\* C8: a request to a permission-protected endpoint does not reach the handler
\* when the session its token names in sid is revoked or expired
C8_DeadSessionNeverReachesHandler ==
    [][http' # http =>
       \A endpoint \in {e \in Endpoints : e.name = http'.op} :
       \A p \in Procs : \A token \in IssuedAccessTokens :
          (~SessionLive(token) /\ MockRequest(p, endpoint, token))
              => http'.status # 200]_vars

\* C9: behind require_permission(resource_type, action) the handler runs only
\* when the caller's resolved permissions contain (resource_type, action);
\* otherwise the answer is 403 and names resource_type:action
C9_HandlerNeedsPermission ==
    [][http' # http =>
       \A endpoint \in {e \in Endpoints : e.name = http'.op} :
       \A p \in Procs : \A token \in PresentedBearerTokens :
          (Verifies(token) /\ MockRequest(p, endpoint, token)) =>
              LET resolved == get_user_permissions(token, now).value
              IN  IF [resource_type |-> endpoint.resource_type,
                      action |-> endpoint.action] \in resolved
                  THEN http' = Response(endpoint.name, 200, <<"handler">>)
                  ELSE http' = Response(endpoint.name, 403,
                                 <<"Access denied. Required: ", endpoint.resource_type,
                                   ":", endpoint.action, " permission.">>)]_vars

\* C9 happens: a caller whose role grants product:read, and whose override
\* takes it away, was refused on get_products
C9_Witness ==
    /\ http = Response("get_products", 403,
                       <<"Access denied. Required: ", "product", ":", "read",
                         " permission.">>)
    /\ \E r \in user_permissions : r.user_id = WrittenUser /\ ~r.granted

\* C10: a session's is_revoked, once true, is true ever after: no step of
\* login, refresh, logout, delete-me, set-permission or confirm-email clears
\* it, and get_active finds no such session from then on
C10_RevokedForGood ==
    /\ [](\A s \in DOMAIN user_sessions :
             user_sessions[s].is_revoked => get_active(s, now) = {})
    /\ [][\A s \in DOMAIN user_sessions :
             user_sessions[s].is_revoked =>
                 /\ s \in DOMAIN user_sessions'
                 /\ user_sessions'[s].is_revoked
                 /\ (get_active(s, now) = {})']_vars

\* C10 happens: a session is revoked before its expiry, and its user has
\* logged in again since
C10_Witness ==
    \E s1, s2 \in DOMAIN user_sessions :
        /\ s1 < s2
        /\ user_sessions[s1].user_id = user_sessions[s2].user_id
        /\ user_sessions[s1].is_revoked
        /\ user_sessions[s1].expires_at > now
        /\ ~user_sessions[s2].is_revoked
        /\ \E r \in refresh_tokens : r.session_id = s2

\* The active users whose stored hash matches the credentials
Authenticates(email, password) ==
    {u \in DOMAIN users :
        /\ users[u].email = email
        /\ users[u].is_active
        /\ \E salt \in DOMAIN users :
              users[u].hashed_password = hash_password(password, salt)}

\* C11: a login of an active user with the matching password goes through,
\* creates a session that did not exist before, and returns a pair whose access
\* token verifies with purpose access, sub = the user's id and sid = that
\* session, while the digest of the returned refresh token is stored bound to
\* the same session
C11_LoginIssuesBoundPair ==
    [][pc' # pc =>
       \A p \in Procs :
          /\ \A email \in Emails, password \in Passwords, remember_me \in BOOLEAN :
                (/\ LoginAuthenticate(p, email, password, remember_me)
                 /\ Authenticates(email, password) # {})
                    => /\ pc'[p] = "login_create_session"
                       /\ loc'[p].user_id \in Authenticates(email, password)
          /\ LoginCreateSession(p) =>
                /\ loc'[p].session_id \notin DOMAIN user_sessions
                /\ loc'[p].session_id \in DOMAIN user_sessions'
                /\ user_sessions'[loc'[p].session_id].user_id = loc[p].user_id
                /\ loc'[p].user_id = loc[p].user_id
          /\ LoginSaveToken(p) =>
                \E r \in responses' \ responses :
                    LET v == verify_access_token(r.body.access_token.token, now)
                    IN  /\ r.op = "login"
                        /\ v.exc = ""
                        /\ v.value.purpose = "access"
                        /\ v.value.sub = str(loc[p].user_id)
                        /\ v.value.sid = uuid_str(loc[p].session_id)
                        /\ \E row \in refresh_tokens' :
                              /\ row.token_hash =
                                     get_sha256hash(r.body.refresh_token.token)
                              /\ row.session_id = loc[p].session_id]_vars

\* C11 happens: both users have logged in, each into a session of their own
C11_Witness ==
    \E r1, r2 \in responses :
        /\ r1.op = "login" /\ r2.op = "login"
        /\ r1.body.access_token.token.payload.sub = "1"
        /\ r2.body.access_token.token.payload.sub = "2"
        /\ r1.body.access_token.token.payload.sid # r2.body.access_token.token.payload.sid

\* C12: a login that fails on the unknown email, on the inactive account or on
\* the wrong password raises AuthenticationError each time, and the route
\* answers each with the same 401 "Invalid credentials."
C12_LoginFailuresAreUniform ==
    [][http' # http =>
       \A p \in Procs : \A email \in Emails \cup {UnknownEmail} :
       \A password \in Passwords : \A remember_me \in BOOLEAN :
          (/\ LoginAuthenticate(p, email, password, remember_me)
           /\ Authenticates(email, password) = {})
              => /\ _authenticate(email, password).exc = "AuthenticationError"
                 /\ http' = Response("login", 401, <<"Invalid credentials.">>)
                 /\ pc'[p] = "idle"]_vars

\* C12 happens: a login was refused while each of the three checks has
\* credentials that fail on it
C12_Witness ==
    /\ http = Response("login", 401, <<"Invalid credentials.">>)
    /\ _authenticate(UnknownEmail, "Qwerty!234").value = "User not found"
    /\ _authenticate("b@example.com", "Qwerty!234").value = "User account is disabled"
    /\ _authenticate("a@example.com", "Asdfgh!567").value = "Invalid password"

\* C13: a login that fails authentication changes no row of the store, and a
\* login with the matching password of an active user goes through also when
\* the last login answered was a refused one
C13_FailedLoginLeavesNoTrace ==
    /\ [](\A email \in Emails : \A password \in Passwords :
             Authenticates(email, password) # {} =>
                 /\ _authenticate(email, password).exc = ""
                 /\ _authenticate(email, password).value.id
                        \in Authenticates(email, password))
    /\ [][\A p \in Procs : \A email \in Emails \cup {UnknownEmail} :
          \A password \in Passwords : \A remember_me \in BOOLEAN :
             LoginAuthenticate(p, email, password, remember_me) =>
                 IF Authenticates(email, password) = {}
                 THEN store' = store /\ pc'[p] = "idle"
                 ELSE store' = store /\ pc'[p] = "login_create_session"]_vars

\* C13 happens: a login has been refused, and every request slot has since
\* taken a login past authentication
C13_Witness ==
    /\ http = Response("login", 401, <<"Invalid credentials.">>)
    /\ \A p \in Procs : pc[p] \in {"login_create_session", "login_save_token"}

\* C14: at login the refresh token expires 14 days after its issuance when
\* remember_me is true and refresh_token_ttl days after it when remember_me is
\* false, and the session the login creates gets the same lifetime from its
\* creation
C14_LoginLifetimes ==
    [][pc' # pc =>
       \A p \in Procs :
          /\ \A email \in Emails, password \in Passwords, remember_me \in BOOLEAN :
                (/\ LoginAuthenticate(p, email, password, remember_me)
                 /\ pc'[p] = "login_create_session")
                    => loc'[p].remember_me = remember_me
          /\ LoginCreateSession(p) =>
                /\ loc'[p].remember_me = loc[p].remember_me
                /\ user_sessions'[loc'[p].session_id].expires_at =
                       now + (IF loc[p].remember_me THEN 14 ELSE REFRESH_TOKEN_TTL)
                                 * SecondsPerDay
          /\ LoginSaveToken(p) =>
                \E r \in responses' \ responses :
                    /\ r.body.refresh_token.expires_at =
                          now + (IF loc[p].remember_me THEN 14 ELSE REFRESH_TOKEN_TTL)
                                    * SecondsPerDay
                    /\ \E row \in refresh_tokens' \ refresh_tokens :
                          /\ row.token_hash = get_sha256hash(r.body.refresh_token.token)
                          /\ row.expires_at = r.body.refresh_token.expires_at]_vars

\* C14 happens: one login with remember_me and one without have returned
C14_Witness ==
    \E r1, r2 \in responses :
        /\ r1.op = "login" /\ r2.op = "login"
        /\ r1.body.refresh_token.expires_at =
              r1.body.access_token.created_at + 14 * SecondsPerDay
        /\ r2.body.refresh_token.expires_at =
              r2.body.access_token.created_at + REFRESH_TOKEN_TTL * SecondsPerDay
        /\ \E s1, s2 \in DOMAIN user_sessions :
              /\ uuid_str(s1) = r1.body.access_token.token.payload.sid
              /\ uuid_str(s2) = r2.body.access_token.token.payload.sid
              /\ user_sessions[s1].expires_at > user_sessions[s2].expires_at

\* C15: a refresh creates no session and changes no field of a session; the
\* access token it returns carries the session id of the row it consumed, and
\* the row it stores is bound to that same session
C15_RefreshKeepsSession ==
    [][pc' # pc =>
       \A p \in Procs :
          /\ \A token \in PresentedPlaintexts :
                RefreshGate(p, token) =>
                    /\ user_sessions' = user_sessions
                    /\ pc'[p] = "refresh_save" =>
                          \E row \in RowsOf(token) : loc'[p].session_id = row.session_id
          /\ RefreshSave(p) =>
                /\ user_sessions' = user_sessions
                /\ loc'[p].session_id = loc[p].session_id
                /\ loc'[p].token_pair.access_token.token.payload.sid =
                       uuid_str(loc[p].session_id)
                /\ \E row \in refresh_tokens' \ refresh_tokens :
                      /\ row.session_id = loc[p].session_id
                      /\ row.token_hash =
                            get_sha256hash(loc'[p].token_pair.refresh_token.token)
          /\ RefreshRevoke(p) =>
                /\ user_sessions' = user_sessions
                /\ \E r \in responses' \ responses : r.body = loc[p].token_pair]_vars

\* C15 happens: a refresh has returned a pair for a session that exists
C15_Witness ==
    \E r \in responses : \E s \in DOMAIN user_sessions :
        /\ r.op = "refresh"
        /\ r.body.access_token.token.payload.sid = uuid_str(s)
        /\ \E old \in RowsOf(r.presented) : old.session_id = s /\ old.is_revoked
        /\ \E new \in RowsOf(r.body.refresh_token.token) :
              new.session_id = s /\ ~new.is_revoked

\* C16: the refresh token a refresh issues expires refresh_token_ttl days after
\* the refresh, also when its session was created with remember_me
C16_RefreshUsesDefaultLifetime ==
    [][pc' # pc =>
       \A p \in Procs :
          RefreshSave(p) =>
             /\ loc'[p].token_pair.refresh_token.expires_at =
                    now + REFRESH_TOKEN_TTL * SecondsPerDay
             /\ \E row \in refresh_tokens' \ refresh_tokens :
                   row.expires_at = now + REFRESH_TOKEN_TTL * SecondsPerDay]_vars

\* C16 happens: a refresh has returned a token that expires before its session
\* does, which only a session created with remember_me allows
C16_Witness ==
    \E r \in responses : \E s \in DOMAIN user_sessions :
        /\ r.op = "refresh"
        /\ r.body.access_token.token.payload.sid = uuid_str(s)
        /\ user_sessions[s].expires_at > r.body.refresh_token.expires_at
        /\ r.body.refresh_token.expires_at =
              r.body.access_token.created_at + REFRESH_TOKEN_TTL * SecondsPerDay

\* C17: verify_access_token raises TokenVerificationError for every token that
\* create_email_confirmation_token mints, and verify_email_confirmation_token
\* raises TokenVerificationError for every token that create_access_token mints
C17_PurposesDoNotCross ==
    /\ \A u \in DOMAIN users : \A t \in {0, now} :
          verify_access_token(create_email_confirmation_token(u, t), now)
              = Raise("TokenVerificationError")
    /\ \A tok \in IssuedAccessTokens :
          verify_email_confirmation_token(tok, now) = Raise("TokenVerificationError")
    /\ \A u \in DOMAIN users : \A s \in DOMAIN user_sessions :
          verify_email_confirmation_token(
              create_access_token(
                  make_access_token_payload(u, users[u].role, s, None, now)).token,
              now) = Raise("TokenVerificationError")

\* C17 happens: an access token and an email confirmation token are both
\* valid for their own purpose at this moment
C17_Witness ==
    /\ \E tok \in IssuedAccessTokens : verify_access_token(tok, now).exc = ""
    /\ \E u \in DOMAIN users :
          verify_email_confirmation_token(create_email_confirmation_token(u, 0), now).exc = ""
    /\ now > 0

\* The (resource_type, action) pairs of a permission dict
PairsOf(perm_dict) ==
    UNION {{<<rt, perm_dict[rt][i]>> : i \in 1..Len(perm_dict[rt])} : rt \in DOMAIN perm_dict}

\* The overrides of a user for a permission, and whether the role grants it
OverridesOf(user_id, id) ==
    {r \in user_permissions : r.user_id = user_id /\ r.permission_id = id}
RoleGrants(user_id, id) ==
    [role |-> users[user_id].role, permission_id |-> id] \in role_permissions

\* C18: for a user with at most one override per permission,
\* get_all_user_permissions returns a (resource_type, action) pair exactly when
\* an override with granted = true exists for it, or the role grants it and no
\* override with granted = false exists for it
C18_OverridesWinOverRole ==
    \A user_id \in DOMAIN users :
        (\A id \in DOMAIN permissions : Cardinality(OverridesOf(user_id, id)) <= 1) =>
            /\ PairsOf(get_all_user_permissions(user_id)) =
                  {<<resource_types[permissions[id].resource_type_id], permissions[id].action>> :
                      id \in {k \in DOMAIN permissions :
                                \/ \E r \in OverridesOf(user_id, k) : r.granted
                                \/ /\ RoleGrants(user_id, k)
                                   /\ ~\E r \in OverridesOf(user_id, k) : ~r.granted}}
            /\ resolver.user_id = user_id =>
                  PairsOf(resolver.result) = PairsOf(get_all_user_permissions(user_id))

\* C18 happens: the permissions of a user were resolved whose overrides grant
\* what the role does not and take away what the role grants
C18_Witness ==
    /\ resolver.user_id = 2
    /\ \E r \in OverridesOf(2, 3) : r.granted
    /\ \E r \in OverridesOf(2, 1) : ~r.granted
    /\ PairsOf(resolver.result) = {<<"user", "update">>}

\* C19: for fixed role defaults and overrides on pairwise distinct
\* (resource_type, action) pairs, _apply_user_permissions yields the same set of
\* permitted pairs in whatever order the overrides are iterated
C19_OrderDoesNotMatter ==
    resolver.user_id # 0 =>
        \A order \in Orders({resolver.rows[i] : i \in 1..Len(resolver.rows)}) :
            PairsOf(_apply_user_permissions(role_perm_result(resolver.user_id), order))
                = PairsOf(resolver.result)

\* C19 happens: three overrides, grants and revocations mixed, were applied in
\* an order other than that of their ids
C19_Witness ==
    /\ resolver.user_id = 2
    /\ Len(resolver.rows) = 3
    /\ resolver.rows[1] = <<"user", "update", TRUE>>
    /\ resolver.rows[2] = <<"Product", "read", FALSE>>
    /\ resolver.rows[3] = <<"Product", "update", TRUE>>

\* The users whose role is "admin"
Admins == {u \in DOMAIN users : users[u].role = "admin"}

\* C20 as stated: deleting a user whose role is "admin" fails with AdminDeletion
\* (409) and leaves that user active, for every permission set of the caller,
\* through the admin delete endpoint as well as through delete-me
C20_AdminDeletionAlwaysConflict ==
    [][\A p \in Procs :
          /\ (AdminDeleteUser(p) /\ loc[p].user_id \in Admins) =>
                /\ http'.status = 409
                /\ users' = users
          /\ (DeleteMeMarkInactive(p) /\ loc[p].user_id \in Admins) =>
                /\ http'.status = 409
                /\ users' = users]_vars

\* C20 amended: deleting a user whose role is "admin" never succeeds and
\* leaves that user active, for every permission set of the caller; delete-me
\* fails with AdminDeletion (409), and the admin delete endpoint fails with
\* AdminDeletion (409) when the caller holds user:delete and with
\* InsufficientPermissions (403) when not
C20_AdminIsNeverDeleted ==
    /\ [](\A u \in Admins : users[u].is_active)
    /\ [][\A p \in Procs :
             /\ (AdminDeleteUser(p) /\ loc[p].user_id \in Admins) =>
                   /\ users' = users
                   /\ http' = IF has_permission(loc[p].permissions, "user", "delete")
                              THEN Response("delete_user", 409,
                                            <<"Cannot delete admin user.">>)
                              ELSE Response("delete_user", 403,
                                            <<"Insufficient permissions to delete other users.">>)
             /\ (DeleteMeMarkInactive(p) /\ loc[p].user_id \in Admins) =>
                   /\ users' = users
                   /\ http' = Response("delete_me", 409, <<"Cannot delete admin user">>)]_vars

\* C20 happens: the only caller who has logged in, a user who holds user:delete
\* through an override alone, has been refused the deletion of the admin with 409
C20_Witness ==
    /\ http = Response("delete_user", 409, <<"Cannot delete admin user.">>)
    /\ responses # {}
    /\ \A r \in responses : r.body.access_token.token.payload.sub = "2"
    /\ \E r \in user_permissions : r.user_id = 2 /\ r.granted
    /\ \A u \in Admins : users[u].is_active

\* C21: a user created by registration is inactive; confirming with a valid
\* email-confirmation token of an inactive user makes that user active; a
\* further confirmation for a user who is active raises UserAlreadyActivated
\* (409) and changes nothing
C21_ConfirmActivatesOnce ==
    [][\A p \in Procs :
          /\ \A email \in Emails \cup {NewEmail}, new_password \in Passwords,
                user_role \in UserRoles :
                (Register(p, email, new_password, user_role) /\ users' # users) =>
                    /\ DOMAIN users' = DOMAIN users \cup {FreshUserId}
                    /\ FreshUserId \notin DOMAIN users
                    /\ ~users'[FreshUserId].is_active
                    /\ users'[FreshUserId].email = email
                    /\ \A u \in DOMAIN users : users'[u] = users[u]
          /\ \A token \in SentEmailTokens :
                (/\ ConfirmEmail(p, token)
                 /\ verify_email_confirmation_token(token, now).exc = "") =>
                    LET user_id == verify_email_confirmation_token(token, now).value
                    IN  IF users[user_id].is_active
                        THEN /\ store' = store
                             /\ http' = Response("confirm_email", 409,
                                                 <<"Email address already confirmed.">>)
                        ELSE /\ users' = [users EXCEPT ![user_id].is_active = TRUE]
                             /\ http' = Response("confirm_email", 200,
                                                 <<"Email address confirmed successfully.">>)]_vars

\* C21 happens: every user, the newly registered one included, has been
\* activated, and a further confirmation was answered with 409
C21_Witness ==
    /\ Cardinality(DOMAIN users) = MaxUsers
    /\ \A u \in DOMAIN users : users[u].is_active
    /\ \E u \in DOMAIN users : users[u].created_at > 0
    /\ http = Response("confirm_email", 409, <<"Email address already confirmed.">>)

\* C22: LogoutUseCase(session_id) raises no error for an active, an
\* already-revoked, an expired or a non-existent session id, and running it
\* twice leaves the store as running it once does
C22_LogoutIsIdempotent ==
    /\ [](\A session_id \in SessionIds :
             /\ ENABLED SessionRevoke(session_id)
             /\ (session_id \notin DOMAIN user_sessions
                 \/ user_sessions[session_id].is_revoked)
                    => UserSessionRevoke(session_id) = user_sessions)
    /\ [][\A session_id \in SessionIds :
             SessionRevoke(session_id) =>
                /\ DOMAIN user_sessions' = DOMAIN user_sessions
                /\ \A s \in DOMAIN user_sessions :
                      user_sessions'[s] =
                          IF s = session_id
                          THEN [user_sessions[s] EXCEPT !.is_revoked = TRUE]
                          ELSE user_sessions[s]
                /\ UNCHANGED <<users, refresh_tokens, user_permissions>>]_vars

\* C22 happens: the last logout named a session id no row has, after a logout
\* of a session that has expired
C22_Witness ==
    /\ returned.op = "user_session.revoke"
    /\ returned.arg \notin DOMAIN user_sessions
    /\ \E s \in DOMAIN user_sessions :
          user_sessions[s].is_revoked /\ user_sessions[s].expires_at <= now
    /\ \E s \in DOMAIN user_sessions : ~user_sessions[s].is_revoked

\* C23: UserSessionRepository.revoke(session_id) returns true only when the
\* call flips a session from non-revoked to revoked, and false when the
\* session is already revoked or does not exist
C23_RevokeReportsTheFlip ==
    [][\A session_id \in SessionIds :
          SessionRevoke(session_id) =>
              returned'.value =
                  (/\ session_id \in DOMAIN user_sessions
                   /\ ~user_sessions[session_id].is_revoked)]_vars

\* Whether the WHERE clause of RefreshTokenRepository.revoke selects a row
TokenLive(token) == \E r \in RowsOf(token) : ~r.is_revoked /\ r.expires_at > now

\* C24: RefreshTokenRepository.revoke(token_hash) sets is_revoked and returns
\* true only for an existing, non-revoked, non-expired token; for a missing,
\* already-revoked or already-expired token it returns false and changes no row
C24_TokenRevokeOnlyLive ==
    /\ [](\A token \in PresentedPlaintexts :
             ~TokenLive(token) =>
                 /\ RefreshTokenRevoke(get_sha256hash(token), now) = refresh_tokens
                 /\ RefreshTokenRevokeRowcount(get_sha256hash(token), now) = 0)
    /\ [][\A token \in PresentedPlaintexts :
             TokenRevoke(token) =>
                /\ returned'.value = TokenLive(token)
                /\ refresh_tokens' =
                      IF TokenLive(token)
                      THEN {IF r \in RowsOf(token) THEN [r EXCEPT !.is_revoked = TRUE]
                            ELSE r : r \in refresh_tokens}
                      ELSE refresh_tokens]_vars

\* C24 happens: the last revoke named a token that had expired unrevoked and
\* returned false, and a revoke of a live token has flipped its row
C24_Witness ==
    /\ returned.op = "refresh_token.revoke"
    /\ ~returned.value
    /\ \E r \in RowsOf(returned.arg) : ~r.is_revoked /\ r.expires_at <= now
    /\ \E r \in refresh_tokens : r.is_revoked /\ r.token_hash \notin
          {get_sha256hash(x.presented) : x \in {y \in responses : y.op = "refresh"}}

\* The plaintexts secrets.token_urlsafe has produced so far
MintedPlaintexts == 1..Cardinality(refresh_tokens)

\* C25: no refresh-token row stores a plaintext: every persisted token_hash is
\* the SHA-256 digest of a plaintext that was minted, and each plaintext is
\* handed to a client in one response only, that of the login or refresh that
\* minted it
C25_OnlyDigestsAreStored ==
    /\ [](/\ \A row \in refresh_tokens :
                \E t \in MintedPlaintexts : row.token_hash = get_sha256hash(t)
          /\ \A r \in responses :
                /\ r.body.refresh_token.token \in MintedPlaintexts
                /\ \E row \in refresh_tokens :
                      row.token_hash = get_sha256hash(r.body.refresh_token.token)
          /\ \A r1, r2 \in responses :
                r1.body.refresh_token.token = r2.body.refresh_token.token => r1 = r2)
    /\ [][pc' # pc =>
          \A p \in Procs :
             /\ LoginSaveToken(p) =>
                   /\ Cardinality(responses' \ responses) = 1
                   /\ \A r \in responses' \ responses :
                         /\ r.body.refresh_token.token = FreshToken
                         /\ r.body.refresh_token.token \notin IssuedPlaintexts
             /\ RefreshRevoke(p) =>
                   /\ Cardinality(responses' \ responses) = 1
                   /\ \A r \in responses' \ responses :
                         /\ r.body.refresh_token.token = loc[p].token_pair.refresh_token.token
                         /\ r.body.refresh_token.token \notin IssuedPlaintexts]_vars

\* C25 happens: a login and a refresh have each handed out the plaintext they
\* minted, and the table holds the digests of both
C25_Witness ==
    /\ \E r1, r2 \in responses :
          /\ r1.op = "login" /\ r2.op = "refresh"
          /\ r1.body.refresh_token.token # r2.body.refresh_token.token
    /\ Cardinality(refresh_tokens) >= 2
    /\ \A p \in Procs : pc[p] = "idle"

\* C26: login is all-or-nothing: no state of the store that another request
\* can observe, and none left behind by a failed refresh-token insert, holds a
\* session created by a login without a refresh-token row bound to it
C26_LoginIsAtomic ==
    \A s \in DOMAIN user_sessions : \E row \in refresh_tokens : row.session_id = s

\* The (resource_type, action) pair of a permission
PairOf(id) == <<resource_types[permissions[id].resource_type_id], permissions[id].action>>

\* C27: after set_user_permission(user_id, permission_name, granted,
\* granted_by) returns, the resolved permission set of user_id contains the
\* pair of the named permission exactly when granted is true, whatever
\* override rows other users hold for that permission
C27_OverrideDecides ==
    [][\A p \in Procs : \A u \in DOMAIN users : \A id \in DOMAIN permissions :
          (/\ SetPermissionCommit(p)
           /\ loc[p].user_id = u
           /\ loc[p].override.permission_id = id
           /\ http'.status = 200) =>
              (PairOf(id) \in PairsOf(get_all_user_permissions_of(user_permissions', u))
                  <=> loc[p].override.granted)]_vars

\* C28: set_user_permission(user_id, ...) changes only the override of
\* user_id: the override rows and the resolved permission sets of every other
\* user are the same before and after the call
C28_OverrideTouchesOneUser ==
    [][\A p \in Procs : \A u \in DOMAIN users :
          (SetPermissionCommit(p) /\ loc[p].user_id # u) =>
              /\ {r \in user_permissions' : r.user_id = u}
                    = {r \in user_permissions : r.user_id = u}
              /\ PairsOf(get_all_user_permissions_of(user_permissions', u))
                    = PairsOf(get_all_user_permissions(u))]_vars

OverrideDecision(user_id, endpoint) ==
    LET ids == {id \in DOMAIN permissions :
                   /\ lower(PairOf(id)[1]) = endpoint.resource_type
                   /\ PairOf(id)[2] = endpoint.action}
        own == {r \in user_permissions : r.user_id = user_id /\ r.permission_id \in ids}
    IN  IF own # {}
        THEN \A r \in own : r.granted
        ELSE \E id \in ids : RoleGrants(user_id, id)

\* C30: an override row written by set_user_permission decides the very next
\* permission check of its user, whenever the access token presented was
\* issued: every permission decision is the one the override rows and role
\* grants in the store at the moment of the check give, never one read before
\* a completed override write
C30_ChecksReadTheStore ==
    /\ [](\A token \in IssuedAccessTokens : \A endpoint \in Endpoints :
             Verifies(token) =>
                 (require_permission(endpoint.resource_type, endpoint.action,
                                     get_user_permissions(token, now).value).status = 200
                     <=> OverrideDecision(int(token.payload.sub), endpoint)))
    /\ [][http' # http =>
            \A endpoint \in {e \in Endpoints : e.name = http'.op} :
            \A token \in IssuedAccessTokens :
               (Verifies(token) /\ MockRequest(1, endpoint, token)) =>
                   (http'.status = 200
                       <=> OverrideDecision(int(token.payload.sub), endpoint))]_vars

\* C30 happens: the only access token ever issued is the administrator's, so
\* it is the token that authorised the write of the administrator's own
\* override row (product:read revoked) and the token of the check that
\* followed the write, which was refused
C30_Witness ==
    /\ Cardinality(responses) = 1
    /\ \A r \in responses : r.body.access_token.token.payload.sub = "1"
    /\ [user_id |-> 1, permission_id |-> 1, granted |-> FALSE, granted_by |-> 1]
           \in user_permissions
    /\ http = Response("get_products", 403,
                       <<"Access denied. Required: ", "product", ":", "read",
                         " permission.">>)

\* C31: _apply_user_permissions works on a deep copy: after it returns, the
\* role_permissions dictionary passed in, each of its action lists included,
\* is equal to what it was before the call
C31_RolePermissionsUntouched ==
    resolver.user_id # 0 =>
        resolver.role_permissions = role_perm_result(resolver.user_id)

\* C32: RefreshTokenRepository.create, called by login and by refresh, inserts
\* one new row bound to the session and leaves every refresh-token row that
\* existed (is_revoked, expires_at, token_hash) and every session row as it was
C32_CreateOnlyInserts ==
    [][\A p \in Procs :
          (LoginSaveToken(p) \/ RefreshSave(p)) =>
              /\ refresh_tokens \subseteq refresh_tokens'
              /\ Cardinality(refresh_tokens' \ refresh_tokens) = 1
              /\ \A r \in refresh_tokens' \ refresh_tokens :
                    r.session_id = loc[p].session_id /\ ~r.is_revoked
              /\ user_sessions' = user_sessions]_vars

\* C32 happens: a refresh has inserted its row and not yet revoked the old
\* one: the session holds two rows, neither revoked
C32_Witness ==
    \E p \in Procs :
        /\ pc[p] = "refresh_revoke"
        /\ \E r, q \in refresh_tokens :
              /\ r # q
              /\ r.session_id = loc[p].session_id /\ q.session_id = loc[p].session_id
              /\ ~r.is_revoked /\ ~q.is_revoked

\* C33: a RefreshUseCase call that raises TokenNotFound (answered 401) leaves
\* the store unchanged: it inserts no refresh-token row, revokes nothing and
\* returns no token pair
C33_RefusedRefreshChangesNothing ==
    [][\A p \in Procs : \A token \in PresentedPlaintexts :
          (/\ RefreshGate(p, token)
           /\ get_active_for_refresh(get_sha256hash(token), now) = {}) =>
              /\ http' = Response("refresh", 401, <<"Invalid or expired refresh token.">>)
              /\ pc'[p] = "idle"
              /\ refresh_tokens' = refresh_tokens
              /\ user_sessions' = user_sessions
              /\ users' = users
              /\ user_permissions' = user_permissions
              /\ responses' = responses]_vars

\* C33 happens: a refresh presenting a token whose row is there, not revoked,
\* but expired was refused, and the row is still not revoked
C33_Witness ==
    /\ http = Response("refresh", 401, <<"Invalid or expired refresh token.">>)
    /\ \E r \in refresh_tokens : ~r.is_revoked /\ r.expires_at <= now
    /\ \A p \in Procs : pc[p] = "idle"

\* C34: no operation changes the expires_at of an existing session and the
\* clock never goes back, so a session that has once been expired
\* (expires_at <= now) is never again returned by get_active and never again
\* lets a refresh through the gate
C34_ExpiredForGood ==
    /\ [](\A s \in DOMAIN user_sessions :
             user_sessions[s].expires_at <= now =>
                 /\ get_active(s, now) = {}
                 /\ \A r \in refresh_tokens :
                       r.session_id = s => get_active_for_refresh(r.token_hash, now) = {})
    /\ [][/\ now' >= now
          /\ \A s \in DOMAIN user_sessions :
                /\ s \in DOMAIN user_sessions'
                /\ user_sessions'[s].expires_at = user_sessions[s].expires_at]_vars
    /\ [][\A token \in PresentedPlaintexts :
             (/\ RefreshGate(1, token)
              /\ \E r \in refresh_tokens :
                    /\ r.token_hash = get_sha256hash(token)
                    /\ user_sessions[r.session_id].expires_at <= now) =>
                 pc'[1] = "idle"]_vars

\* C34 happens: a session is expired and not revoked while a refresh token
\* bound to it is neither revoked nor expired (the token was saved a clock
\* step after the session), and the request slots are idle
C34_Witness ==
    /\ \E s \in DOMAIN user_sessions :
          /\ user_sessions[s].expires_at <= now
          /\ ~user_sessions[s].is_revoked
          /\ \E r \in refresh_tokens :
                r.session_id = s /\ ~r.is_revoked /\ r.expires_at > now
    /\ \A p \in Procs : pc[p] = "idle"

C36_NoPairForInactiveUser ==
    [][\A r \in responses' \ responses :
          users[int(r.body.access_token.token.payload.sub)].is_active]_vars

\* C37: DeleteMeUseCase(user_id, session_id) for a non-admin user ends with
\* the user inactive and the given session revoked; for an admin user it
\* raises AdminDeletion (409) and leaves both the user's active flag and the
\* session's is_revoked flag unchanged
C37_DeleteMeOutcome ==
    [][\A p \in Procs :
          /\ (DeleteMeMarkInactive(p) /\ users[loc[p].user_id].role = "admin") =>
                /\ http' = Response("delete_me", 409, <<"Cannot delete admin user">>)
                /\ pc'[p] = "idle"
                /\ users' = users
                /\ user_sessions' = user_sessions
          /\ (DeleteMeMarkInactive(p) /\ users[loc[p].user_id].role # "admin") =>
                /\ ~users'[loc[p].user_id].is_active
                /\ pc'[p] = "delete_me_revoke"
                /\ loc'[p] = loc[p]
          /\ DeleteMeRevoke(p) =>
                /\ http' = Response("delete_me", 204, <<>>)
                /\ pc'[p] = "idle"
                /\ ~users'[loc[p].user_id].is_active
                /\ user_sessions'[loc[p].session_id].is_revoked]_vars

\* C37 happens: the user of role "user" has deleted the account (inactive,
\* session revoked), and the administrator's delete-me was refused last,
\* leaving the administrator active with the session not revoked
C37_Witness ==
    /\ http = Response("delete_me", 409, <<"Cannot delete admin user">>)
    /\ \E s1, s2 \in DOMAIN user_sessions :
          /\ user_sessions[s1].user_id = 2 /\ user_sessions[s1].is_revoked
          /\ ~users[2].is_active
          /\ user_sessions[s2].user_id = 1 /\ ~user_sessions[s2].is_revoked
          /\ users[1].is_active

\* C38: after a user has been soft-deleted (marked inactive by delete-me or
\* admin delete; in the store: inactive although a session of the user
\* exists), ConfirmEmailUseCase with an email confirmation token issued for
\* that user at registration does not make the user active again
C38_DeletedStaysDeleted ==
    [][\A u \in DOMAIN users :
          (/\ ~users[u].is_active
           /\ \E s \in DOMAIN user_sessions : user_sessions[s].user_id = u
           /\ \E p \in Procs :
                 ConfirmEmail(p, create_email_confirmation_token(u, users[u].created_at)))
              => ~users'[u].is_active]_vars

\* C39: a password change whose current password does not verify against the
\* stored hash ends with 422 "Current password is incorrect." and leaves the
\* users table as it was, so the same passwords log in afterwards as before;
\* a request goes on to the update only when its current password verified, and
\* the stored hash changes only by the update of such a request.
C39_ChangeNeedsCurrentPassword ==
    [][/\ \A p \in Procs :
            /\ ( /\ pc[p] = "change_password_verify"
                 /\ pc'[p] # "change_password_verify"
                 /\ ~verify_password(loc[p].current_password,
                                     users[loc[p].user_id].hashed_password) )
               => /\ pc'[p] = "idle"
                  /\ http' = Response("change_password", 422,
                                      <<"Current password is incorrect.">>)
                  /\ users' = users
            /\ ( /\ pc'[p] = "change_password_update"
                 /\ pc[p] # "change_password_update" )
               => /\ pc[p] = "change_password_verify"
                  /\ verify_password(loc[p].current_password,
                                     users[loc[p].user_id].hashed_password)
                  /\ loc'[p].hashed_password[3] = loc[p].new_password
       /\ \A u \in DOMAIN users :
            users'[u].hashed_password # users[u].hashed_password
            => \E p \in Procs :
                  /\ pc[p] = "change_password_update"
                  /\ pc'[p] = "idle"
                  /\ loc[p].user_id = u
                  /\ users'[u].hashed_password = loc[p].hashed_password
                  /\ http' = Response("change_password", 204, <<>>)]_vars

\* A change with the wrong current password was refused: the hash is the one of
\* Init, the old password logs in and the new one does not
C39_Witness ==
    /\ http = Response("change_password", 422, <<"Current password is incorrect.">>)
    /\ users[1].hashed_password = InitialUsers[1].hashed_password
    /\ _authenticate("a@example.com", "Qwerty!234").exc = ""
    /\ _authenticate("a@example.com", "Asdfgh!567").exc = "AuthenticationError"

====
